---- MODULE Spec2Model ----
(***************************************************************************)
(* Model of the Hope VPN Telegram bot (bot.py): the conversation           *)
(* controller, its per-user session (context.user_data), the messages the  *)
(* bot has put into a chat, and the gateway to the backend API.            *)
(*                                                                         *)
(* Strings the code takes apart (callback data, ids, message texts) are    *)
(* sequences of one-character strings; strings it only compares or shows   *)
(* are TLA+ strings.                                                       *)
(***************************************************************************)
EXTENDS Integers, Sequences, FiniteSets, TLC

(* ------------------------------------------------------------------ *)
(* Bounds of the model                                                  *)
(* ------------------------------------------------------------------ *)

\* message ids a chat can hold (messages that carry, or carried, buttons)
MaxMsgs == 3
\* updates the bot handles, and messages the user deletes, in one run
MaxSteps == 5
\* pieces an id is built from in the id-extraction check
MaxIdPieces == 2

(* ------------------------------------------------------------------ *)
(* Python values                                                        *)
(* ------------------------------------------------------------------ *)

\* None for a field that otherwise holds a TLA+ string
None == "None"
\* None for a field that otherwise holds a sequence of characters
NoneSeq == <<"None">>
\* None for a field that otherwise holds a message id or chat id (ids are >= 1)
NoId == 0

(* ------------------------------------------------------------------ *)
(* Conversation states (bot.py:39) and callback data (bot.py:42-65)     *)
(* ------------------------------------------------------------------ *)

SELECT_PROVIDER == "SELECT_PROVIDER"
ENTER_TOKEN == "ENTER_TOKEN"
MAIN_MENU == "MAIN_MENU"
SERVER_DETAILS == "SERVER_DETAILS"
ACCOUNT_CONFIRM == "ACCOUNT_CONFIRM"
\* ConversationHandler.END: the conversation key holds no state
END == "END"


CB_PROVIDER == <<"p","r","o","v","_">>
CB_SERVER == <<"s","r","v","_">>
CB_CREATE == <<"c","r","e","a","t","e","_","s","e","r","v","e","r">>
CB_REFRESH == <<"r","e","f","r","e","s","h">>
CB_DELETE == <<"d","e","l","_">>
CB_MANAGE == <<"m","a","n","a","g","e","_">>
CB_REFRESH_SERVER == <<"r","e","f","r","e","s","h","_","s","r","v","_">>
CB_CHECK == <<"c","h","e","c","k","_">>
CB_METRICS == <<"m","e","t","r","i","c","s","_">>
CB_VPN_VERIFY == <<"v","p","n","_","v","e","r","i","f","y","_">>
CB_SSH_KEY == <<"s","s","h","_","k","e","y","_">>
CB_MANAGE_TOKENS == <<"m","a","n","a","g","e","_","t","o","k","e","n","s">>
CB_TOKEN_UPDATE == <<"t","o","k","e","n","_","u","p","d","a","t","e","_">>
CB_TOKEN_REMOVE == <<"t","o","k","e","n","_","r","e","m","o","v","e","_">>
CB_TOKEN_REPLACE == <<"t","o","k","e","n","_","r","e","p","l","a","c","e","_">>
CB_MANAGE_SERVERS == <<"m","a","n","a","g","e","_","s","e","r","v","e","r","s">>
CB_ADD_PROVIDER == <<"a","d","d","_","p","r","o","v","i","d","e","r">>
CB_BACK_TOKENS == <<"b","a","c","k","_","t","o","k","e","n","s">>
CB_DELETE_ACCOUNT == <<"d","e","l","e","t","e","_","a","c","c","o","u","n","t">>
CB_CONFIRM_DELETE_ACCOUNT == <<"c","o","n","f","i","r","m","_","d","e","l","e","t","e","_","a","c","c","o","u","n","t">>
CB_CANCEL_DELETE_ACCOUNT == <<"c","a","n","c","e","l","_","d","e","l","e","t","e","_","a","c","c","o","u","n","t">>
CB_BACK_DETAILS == <<"b","a","c","k","_","d","e","t","a","i","l","s">>
CB_BACK == <<"b","a","c","k","_","m","a","i","n">>
CB_TOKEN_CANCEL == <<"t","o","k","e","n","_","c","a","n","c","e","l">>

(* ------------------------------------------------------------------ *)
(* Python string operations on sequences of characters                  *)
(* ------------------------------------------------------------------ *)

\* s.startswith(p); also re.match("^p", s) of a CallbackQueryHandler pattern
StartsWith(s, p) ==
    /\ Len(s) >= Len(p)
    /\ SubSeq(s, 1, Len(p)) = p

RECURSIVE PyReplace(_, _)
\* s.replace(p, ""): every non-overlapping occurrence of p, scanning from the
\* left, is removed (p is never empty here)
PyReplace(s, p) ==
    IF Len(s) < Len(p) THEN s
    ELSE IF SubSeq(s, 1, Len(p)) = p
         THEN PyReplace(SubSeq(s, Len(p) + 1, Len(s)), p)
         ELSE <<s[1]>> \o PyReplace(Tail(s), p)

\* the characters str.strip() removes
Whitespace == {" ", "\n", "\t"}

RECURSIVE LStrip(_)
LStrip(s) ==
    IF s # <<>> /\ s[1] \in Whitespace THEN LStrip(Tail(s)) ELSE s

RECURSIVE RStrip(_)
RStrip(s) ==
    IF s # <<>> /\ s[Len(s)] \in Whitespace THEN RStrip(SubSeq(s, 1, Len(s) - 1)) ELSE s

\* a text taken as it is
StripNothing(s) == s

\* s.strip()
Strip(s) == RStrip(LStrip(s))

\* the letters in upper case and in lower case
UpperLetters ==
    <<"A", "B", "C", "D", "E", "F", "G", "H", "I", "J", "K", "L", "M", "N", "O", "P", "Q", "R", "S", "T", "U", "V", "W", "X", "Y", "Z">>
LowerLetters ==
    <<"a", "b", "c", "d", "e", "f", "g", "h", "i", "j", "k", "l", "m", "n", "o", "p", "q", "r", "s", "t", "u", "v", "w", "x", "y", "z">>

\* c.lower()
LowerChar(c) ==
    IF \E i \in 1..Len(UpperLetters) : UpperLetters[i] = c
    THEN LowerLetters[CHOOSE i \in 1..Len(UpperLetters) : UpperLetters[i] = c]
    ELSE c

RECURSIVE Lower(_)
\* s.lower()
Lower(s) ==
    IF s = <<>> THEN <<>> ELSE <<LowerChar(s[1])>> \o Lower(Tail(s))

\* the elements of a sequence
Range(s) == {s[i] : i \in 1..Len(s)}

\* s[:n]
Take(s, n) == SubSeq(s, 1, IF Len(s) < n THEN Len(s) ELSE n)

(* ------------------------------------------------------------------ *)
(* Backend responses and the gateway (bot.py:197-245)                   *)
(* ------------------------------------------------------------------ *)

\* A JSON payload as the handlers read it: "none" is JSON null / Python None,
\* a "dict" may be empty ({}), a "list" holds items (provider names, server
\* ids), uid is a userId field, tags the per-item labels, flag a boolean field.
NoneBody == [t |-> "none", empty |-> TRUE, items |-> <<>>, uid |-> None, tags |-> <<>>, flag |-> FALSE]
JEmptyDict == [t |-> "dict", empty |-> TRUE, items |-> <<>>, uid |-> None, tags |-> <<>>, flag |-> FALSE]
JDict(uid, items, flag) == [t |-> "dict", empty |-> FALSE, items |-> items, uid |-> uid, tags |-> <<>>, flag |-> flag]
JList(items, tags) == [t |-> "list", empty |-> items = <<>>, items |-> items, uid |-> None, tags |-> tags, flag |-> FALSE]

\* Python truthiness of a payload: `if resp`, `if not resp`
Truthy(b) ==
    \/ b.t = "dict" /\ ~b.empty
    \/ b.t = "list" /\ b.items # <<>>

\* what the HTTP client hands back: a 2xx response with a JSON body, a 2xx
\* response whose body is not JSON, a non-2xx response (its JSON message field,
\* "" when absent or falsy, and its raw text), no response at all because the
\* backend could not be reached, or another exception exc whose str() is msg
OkResp(b) == [kind |-> "ok", status |-> 200, msg |-> "", text |-> <<>>, body |-> b, exc |-> None]
BadJsonResp == [kind |-> "badjson", status |-> 200, msg |-> "", text |-> <<>>, body |-> NoneBody, exc |-> "JSONDecodeError"]
HttpErrResp(status, msg, text) == [kind |-> "http", status |-> status, msg |-> msg, text |-> text, body |-> NoneBody, exc |-> "HTTPStatusError"]
UnreachableResp == [kind |-> "unreachable", status |-> 0, msg |-> "", text |-> <<>>, body |-> NoneBody, exc |-> "ConnectError"]
RaisedResp(exc, str) == [kind |-> "raised", status |-> 0, msg |-> str, text |-> <<>>, body |-> NoneBody, exc |-> exc]

\* An error text shown to the user: a fixed or backend-given string s, or the
\* raw characters cs of a response body, or "HTTP <code>".
Msg(s) == [s |-> s, cs |-> <<>>, code |-> 0]
NoMsg == Msg(None)
COULD_NOT_REACH == "Could not reach the API. Check it is running."
REQUEST_FAILED == "Request failed"
\* str(e) of the JSON decoder's exception for a body that is not JSON
DECODE_ERROR == "Expecting value: line 1 column 1 (char 0)"
TextLimit == 200

\* the exception classes answered with COULD_NOT_REACH
UNREACHABLE_ERRORS == {"ConnectError", "ConnectTimeout", "ReadTimeout"}

\* api_request: the payload, or None on every failure
api_request(r) ==
    IF r.kind = "ok" THEN r.body ELSE NoneBody

\* a variant of _parse_error_message that hands the raw body back whole
parse_error_message_whole(r) ==
    IF r.msg # "" THEN Msg(r.msg)
    ELSE IF r.text # <<>> THEN [s |-> "", cs |-> r.text, code |-> 0]
    ELSE [s |-> "HTTP", cs |-> <<>>, code |-> r.status]

\* _parse_error_message
parse_error_message(r) ==
    IF r.msg # "" THEN Msg(r.msg)
    ELSE IF r.text # <<>> THEN [s |-> "", cs |-> Take(r.text, TextLimit), code |-> 0]
    ELSE [s |-> "HTTP", cs |-> <<>>, code |-> r.status]

\* api_request_with_error: <<payload, error message>>
api_request_with_error(r) ==
    CASE r.kind = "ok" -> <<r.body, NoMsg>>
      [] r.kind = "http" -> <<NoneBody, parse_error_message(r)>>
      [] r.kind = "unreachable" \/ r.exc \in UNREACHABLE_ERRORS -> <<NoneBody, Msg(COULD_NOT_REACH)>>
      [] r.kind = "raised" -> <<NoneBody, Msg(IF r.msg = "" THEN REQUEST_FAILED ELSE r.msg)>>
      [] OTHER -> <<NoneBody, Msg(DECODE_ERROR)>>

\* `err or default`
ErrOr(err, default) == IF err = NoMsg THEN Msg(default) ELSE err

(* ------------------------------------------------------------------ *)
(* Screens: what a message of the bot shows, and its buttons            *)
(* ------------------------------------------------------------------ *)

\* kind names the text, ids/aux/tags carry what the text and the buttons are
\* built from, reason an error text included in the message
Screen(kind, ids, aux, tags, reason) ==
    [kind |-> kind, ids |-> ids, aux |-> aux, tags |-> tags, reason |-> reason]
TextScreen(kind) == Screen(kind, <<>>, <<>>, <<>>, NoMsg)
ErrScreen(kind, reason) == Screen(kind, <<>>, <<>>, <<>>, reason)

\* start: the four-button menu of a returning user (bot.py:321-328)
StartMenuKeyboard == {CB_MANAGE_SERVERS, CB_MANAGE_TOKENS, CB_ADD_PROVIDER, CB_DELETE_ACCOUNT}
\* one button per active provider (bot.py:347-351, 449-452, 478-481)
ProviderKeyboard(names) == {CB_PROVIDER \o names[i] : i \in 1..Len(names)}
\* _show_token_prompt (bot.py:371)
TokenPromptKeyboard == {CB_TOKEN_CANCEL}
\* handle_provider_selection (bot.py:393-396)
ReplaceKeepKeyboard(provider_name) == {CB_TOKEN_REPLACE \o provider_name, CB_MANAGE_SERVERS}
\* _build_server_list_keyboard
build_server_list_keyboard(ids) ==
    UNION {{CB_SERVER \o ids[i], CB_MANAGE \o ids[i], CB_REFRESH_SERVER \o ids[i], CB_DELETE \o ids[i]} : i \in 1..Len(ids)}
        \cup {CB_BACK}
\* show_main_menu: the action row of the second message (bot.py:646-650)
ActionsKeyboard == {CB_CREATE, CB_REFRESH, CB_MANAGE_TOKENS, CB_DELETE_ACCOUNT}
\* show_manage_tokens (bot.py:592-613): names the active providers, saved those
\* of them that have a selection
InventoryKeyboard(names, saved) ==
    UNION {IF names[i] \in Range(saved)
           THEN {CB_TOKEN_UPDATE \o names[i], CB_TOKEN_REMOVE \o names[i]}
           ELSE {CB_TOKEN_UPDATE \o names[i]} : i \in 1..Len(names)}
        \cup {CB_BACK_TOKENS}
\* show_server_details (bot.py:840-846)
DetailsKeyboard(server_id) ==
    {CB_CHECK \o server_id, CB_VPN_VERIFY \o server_id, CB_METRICS \o server_id,
     CB_DELETE \o server_id, CB_BACK}
\* result screens whose only button leads to the main menu
BackMainKeyboard == {CB_BACK}
\* the result screens of handle_server_details_callback
BackDetailsKeyboard == {CB_BACK_DETAILS}
\* handle_main_menu_callback (bot.py:794-799)
ConfirmKeyboard == {CB_CONFIRM_DELETE_ACCOUNT, CB_CANCEL_DELETE_ACCOUNT}

\* the callback data of the buttons a message carries
Keyboard(sc) ==
    CASE sc.kind = "start_menu" -> StartMenuKeyboard
      [] sc.kind = "provider_list" -> ProviderKeyboard(sc.ids)
      [] sc.kind = "token_prompt" -> TokenPromptKeyboard
      [] sc.kind = "replace_keep" -> ReplaceKeepKeyboard(sc.ids[1])
      [] sc.kind = "server_list" -> build_server_list_keyboard(sc.ids)
      [] sc.kind = "actions" -> ActionsKeyboard
      [] sc.kind = "inventory" -> InventoryKeyboard(sc.ids, sc.aux)
      [] sc.kind = "details" -> DetailsKeyboard(sc.ids[1])
      [] sc.kind = "result" -> BackDetailsKeyboard
      [] sc.kind = "confirm" -> ConfirmKeyboard
      [] OTHER -> {}

(* ------------------------------------------------------------------ *)
(* State                                                                *)
(* ------------------------------------------------------------------ *)

\* Telegram users (user.id) and chats (chat.id)
Users == {1, 2}
Chats == {1, 2}
MsgIds == 1..MaxMsgs

VARIABLES
    conv,       \* conv[c][u]: the ConversationHandler state of key (chat c, user u)
    user_data,  \* user_data[u]: context.user_data of user u
    msgs,       \* msgs[c][m]: what message m of chat c shows
    turn,       \* the turn handled last: handler, update, state before, exception
    calls,      \* the backend requests of that turn, in order, with their responses
    shown,      \* the messages sent or edited in that turn, in order
    probe,      \* input and result of the pure function applied last
    steps,      \* updates and deletions so far
    update_queue, \* Application.update_queue: the updates received and not yet taken
    tasks,      \* tasks[u]: the update of user u being processed, and how far
    prompted    \* prompted[u]: the provider named by the token prompt shown to u last

vars == <<conv, user_data, msgs, turn, calls, shown, probe, steps, update_queue, tasks, prompted>>

\* context.user_data with no key set; user_data.clear()
EmptyUserData ==
    [user_id |-> None, telegram_id |-> NoId, provider |-> NoneSeq,
     token_action |-> None, return_to |-> None, selected_server_id |-> NoneSeq,
     main_menu_message_id |-> NoId, main_menu_chat_id |-> NoId]

\* a message id not used yet, and a message the user has deleted
UnusedMsg == TextScreen("unused")
DeletedMsg == TextScreen("deleted")

NoTurn ==
    [handler |-> "none", user |-> NoId, chat |-> NoId, pre |-> END, type |-> "none",
     data |-> <<>>, msg |-> NoId, exc |-> "", ud |-> EmptyUserData]
NoProbe == [fn |-> "none", prefix |-> <<>>, id |-> <<>>, out |-> <<>>]
\* no update of the user is being processed
NoTask == [data |-> <<>>, at |-> "idle", timeout |-> 0]

(* ------------------------------------------------------------------ *)
(* One turn: the running handler's view of the session and the chat     *)
(* ------------------------------------------------------------------ *)

\* A turn context k: ud the user's session, ms the chat's messages, calls and
\* shown what the turn did so far, exc the exception that has been raised (""
\* for none; a raised exception skips every later statement), full whether the
\* turn needed more messages than the chat holds, ret the state the handler
\* returns.
NoRet == "no return"
\* a context that hands every user the session of user 1
TurnCtxSharedSession(u, c) ==
    [ud |-> user_data[1], ms |-> msgs[c], calls |-> <<>>, shown |-> <<>>,
     exc |-> "", full |-> FALSE, ret |-> NoRet]

TurnCtx(u, c) ==
    [ud |-> user_data[u], ms |-> msgs[c], calls |-> <<>>, shown |-> <<>>,
     exc |-> "", full |-> FALSE, ret |-> NoRet]

\* one request to the backend and the response it got
Call(method, path, sid, uid, provider, token, timeout, r) ==
    [method |-> method, path |-> path, sid |-> sid, uid |-> uid, provider |-> provider,
     token |-> token, timeout |-> timeout, resp |-> r]

\* a gateway that repeats a request that failed
CalledWithRetry(k, c) ==
    IF k.exc # "" THEN k
    ELSE IF c.resp.kind = "ok" THEN [k EXCEPT !.calls = Append(@, c)]
    ELSE [k EXCEPT !.calls = Append(Append(@, c), c)]

Called(k, c) ==
    IF k.exc # "" THEN k ELSE [k EXCEPT !.calls = Append(@, c)]

\* context.user_data[...] = ..., .pop(...), .clear()
SetUD(k, ud) ==
    IF k.exc # "" THEN k ELSE [k EXCEPT !.ud = ud]

\* `return state`
Ret(k, state) ==
    IF k.exc # "" THEN k ELSE [k EXCEPT !.ret = state]

\* The id of the message a reply creates: Telegram numbers the messages of a
\* chat upwards and gives no id twice (NoId when the ids are used up).
NextMsgId(k) ==
    LET free == {i \in MsgIds : k.ms[i] = UnusedMsg}
    IN IF free = {} THEN NoId ELSE CHOOSE i \in free : \A j \in free : i <= j

\* message.reply_text: a new message. Only messages with buttons are kept in
\* ms: a message without buttons is never pressed and never edited.
Reply(k, sc) ==
    IF k.exc # "" THEN k
    ELSE IF Keyboard(sc) = {}
    THEN [k EXCEPT !.shown = Append(@, [via |-> "reply", msg |-> NoId, sc |-> sc])]
    ELSE LET id == NextMsgId(k)
         IN IF id = NoId
            THEN [k EXCEPT !.full = TRUE]
            ELSE [k EXCEPT !.ms[id] = sc,
                           !.shown = Append(@, [via |-> "reply", msg |-> id, sc |-> sc])]

\* a reply whose message id is not read
SentIdUnread(k) == NoId

\* the message id of the message sent last
SentId(k) ==
    IF k.shown = <<>> THEN NoId ELSE k.shown[Len(k.shown)].msg

\* edit_message_text on message m of the chat: Telegram answers BadRequest
\* "message to edit not found" for a deleted message and BadRequest "message is
\* not modified" when text and buttons are what the message already shows
Edit(k, m, sc) ==
    IF k.exc # "" THEN k
    ELSE IF m \notin MsgIds \/ k.ms[m] \in {UnusedMsg, DeletedMsg}
    THEN [k EXCEPT !.exc = "BadRequest: message to edit not found"]
    ELSE IF k.ms[m] = sc
    THEN [k EXCEPT !.exc = "BadRequest: message is not modified"]
    ELSE [k EXCEPT !.ms[m] = sc,
                   !.shown = Append(@, [via |-> "edit", msg |-> m, sc |-> sc])]

\* target = query.edit_message_text if is_callback else message.reply_text
EditOrReply(k, upd, sc) ==
    IF upd.type = "callback" THEN Edit(k, upd.msg, sc) ELSE Reply(k, sc)

\* the names of the providers of a GET /providers payload with isActive not false
ActiveNames(b) ==
    LET idx == {i \in 1..Len(b.items) : b.tags[i] # "inactive"}
        F[i \in 0..Len(b.items)] ==
            IF i = 0 THEN <<>>
            ELSE IF i \in idx THEN Append(F[i - 1], b.items[i]) ELSE F[i - 1]
    IN F[Len(b.items)]

\* a comparison of provider names that tells upper case from lower case
HasSelectionExact(selections, provider_name) ==
    \E i \in 1..Len(selections.items) : selections.items[i] = provider_name

\* whether a GET /selections payload names the provider (bot.py:390-392, 762-764)
HasSelection(selections, provider_name) ==
    \E i \in 1..Len(selections.items) : Lower(selections.items[i]) = Lower(provider_name)

\* _show_token_prompt
show_token_prompt(k, upd, provider_name, action) ==
    LET title == IF action = "update" THEN "Update token" ELSE "Add token"
    IN Edit(k, upd.msg, Screen("token_prompt", <<provider_name>>, <<>>, <<title>>, NoMsg))

\* _build_server_list_content with _build_server_list_keyboard: the list shows
\* one row per server (its id and readiness label)
ServerListScreen(servers) ==
    Screen("server_list", servers.items, <<>>, servers.tags, NoMsg)

\* a render that never looks for the anchor message
AnchorIgnored(ud, chat) == FALSE

\* show_main_menu: an anchor message is stored, and it is one of this chat
AnchorStored(ud, chat) ==
    ud.main_menu_message_id # NoId /\ ud.main_menu_chat_id = chat

\* show_main_menu
show_main_menu(k, upd, rs) ==
    LET user_id == k.ud.user_id
        is_callback == upd.type = "callback"
    IN IF user_id = None
       THEN Ret(EditOrReply(k, upd, TextScreen("session_lost")), END)
       ELSE
       LET k1 == Called(k, Call("GET", "/servers", NoneSeq, user_id, NoneSeq, NoneSeq, 5, rs.servers))
           servers == api_request(rs.servers)
       IN IF servers.t = "none"
          THEN Ret(EditOrReply(k1, upd, TextScreen("error_fetching_servers")), MAIN_MENU)
          ELSE
          LET k2 == Called(k1, Call("GET", "/stats/aggregate", NoneSeq, None, NoneSeq, NoneSeq, 5, rs.stats))
              sc == ServerListScreen(servers)
              msg_id == k2.ud.main_menu_message_id
              k3 == IF is_callback
                    THEN IF AnchorStored(k2.ud, upd.chat)
                         THEN Edit(k2, msg_id, sc)
                         ELSE LET e == Edit(k2, upd.msg, sc)
                              IN SetUD(e, [e.ud EXCEPT !.main_menu_message_id = upd.msg,
                                                       !.main_menu_chat_id = upd.chat])
                    ELSE LET sent == Reply(k2, sc)
                             a == SetUD(sent, [sent.ud EXCEPT !.main_menu_message_id = SentId(sent),
                                                              !.main_menu_chat_id = upd.chat])
                         IN Reply(a, TextScreen("actions"))
              \* except BadRequest: swallowed when the message says "not modified"
              k4 == IF k3.exc = "BadRequest: message is not modified"
                    THEN [k3 EXCEPT !.exc = ""] ELSE k3
          IN Ret(k4, MAIN_MENU)

\* show_manage_tokens
show_manage_tokens(k, upd, rs) ==
    LET user_id == k.ud.user_id
    IN IF user_id = None
       THEN Ret(EditOrReply(k, upd, TextScreen("session_lost")), END)
       ELSE
       LET k1 == Called(k, Call("GET", "/providers", NoneSeq, None, NoneSeq, NoneSeq, 5, rs.providers))
           providers == api_request(rs.providers)
           k2 == Called(k1, Call("GET", "/selections", NoneSeq, user_id, NoneSeq, NoneSeq, 5, rs.selections))
           selections == api_request(rs.selections)
           names == IF Truthy(providers) THEN ActiveNames(providers) ELSE <<>>
           HasToken(n) == HasSelection(selections, n)
           saved == SelectSeq(names, HasToken)
           sc == Screen("inventory", names, saved,
                        IF Truthy(providers) THEN <<>> ELSE <<"No providers available.">>, NoMsg)
       IN Ret(EditOrReply(k2, upd, sc), MAIN_MENU)

\* show_provider_selection
show_provider_selection(k, upd, rs) ==
    LET k1 == Called(k, Call("GET", "/providers", NoneSeq, None, NoneSeq, NoneSeq, 5, rs.providers))
        providers == api_request(rs.providers)
    IN IF ~Truthy(providers)
       THEN Ret(EditOrReply(k1, upd, TextScreen("could_not_load_providers")), END)
       ELSE Ret(EditOrReply(k1, upd, Screen("provider_list", ActiveNames(providers), <<>>, <<>>, NoMsg)),
                SELECT_PROVIDER)

(* ------------------------------------------------------------------ *)
(* Handlers                                                             *)
(* ------------------------------------------------------------------ *)

\* a start that does not look at the servers
HasExistingWithoutServers(selections, user_info, servers) ==
    \/ selections.t = "list" /\ Len(selections.items) > 0
    \/ Truthy(user_info) /\ user_info.items # <<>>

\* has_existing of start: a selection listed by GET /selections or GET /user, or
\* a server listed by GET /servers, which is asked only when GET /user answered
HasExisting(selections, user_info, servers) ==
    \/ selections.t = "list" /\ Len(selections.items) > 0
    \/ Truthy(user_info) /\ user_info.items # <<>>
    \/ Truthy(user_info) /\ Truthy(servers)

\* start
start(k, upd, rs) ==
    LET k1 == Called(k, Call("POST", "/signup", NoneSeq, None, NoneSeq, NoneSeq, 5, rs.signup))
        signup_data == api_request(rs.signup)
        user_id == IF Truthy(signup_data) THEN signup_data.uid ELSE None
    IN IF user_id = None
       THEN Ret(Reply(k1, TextScreen("start_error")), END)
       ELSE
       LET k2 == SetUD(k1, [k1.ud EXCEPT !.user_id = user_id, !.telegram_id = upd.user])
           k3 == Called(k2, Call("GET", "/stats/aggregate", NoneSeq, None, NoneSeq, NoneSeq, 5, rs.stats))
           k4 == Called(k3, Call("GET", "/selections", NoneSeq, user_id, NoneSeq, NoneSeq, 5, rs.selections))
           selections == api_request(rs.selections)
           k5 == Called(k4, Call("GET", "/user", NoneSeq, user_id, NoneSeq, NoneSeq, 5, rs.user))
           user_info == api_request(rs.user)
           info_selections == user_info.items
           api_user_id == user_info.uid
           resync == Truthy(user_info) /\ info_selections # <<>>
                        /\ api_user_id # None /\ api_user_id # user_id
           user_id2 == IF resync THEN api_user_id ELSE user_id
           k6 == IF resync THEN SetUD(k5, [k5.ud EXCEPT !.user_id = api_user_id]) ELSE k5
           k7 == IF Truthy(user_info)
                 THEN Called(k6, Call("GET", "/servers", NoneSeq, user_id2, NoneSeq, NoneSeq, 5, rs.servers))
                 ELSE k6
           servers == api_request(rs.servers)
           has_existing == HasExisting(selections, user_info, servers)
       IN IF has_existing
          THEN Ret(Reply(k7, TextScreen("start_menu")), MAIN_MENU)
          ELSE
          LET k8 == Reply(k7, TextScreen("intro"))
              k9 == Called(k8, Call("GET", "/providers", NoneSeq, None, NoneSeq, NoneSeq, 5, rs.providers))
              providers == api_request(rs.providers)
          IN IF ~Truthy(providers)
             THEN Ret(Reply(k9, TextScreen("could_not_fetch_providers")), END)
             ELSE Ret(Reply(k9, Screen("provider_list", ActiveNames(providers), <<>>, <<>>, NoMsg)),
                      SELECT_PROVIDER)

\* handle_provider_selection
handle_provider_selection(k, upd, rs) ==
    LET provider_name == PyReplace(upd.data, CB_PROVIDER)
        token_action == IF k.ud.token_action # None THEN k.ud.token_action ELSE "add"
        k1 == SetUD(k, [k.ud EXCEPT !.provider = provider_name, !.token_action = token_action])
        user_id == k1.ud.user_id
        k2 == IF user_id # None
              THEN Called(k1, Call("GET", "/selections", NoneSeq, user_id, NoneSeq, NoneSeq, 5, rs.selections))
              ELSE k1
        selections == api_request(rs.selections)
    IN IF user_id # None /\ HasSelection(selections, provider_name)
       THEN Ret(Edit(k2, upd.msg, Screen("replace_keep", <<provider_name>>, <<>>, <<>>, NoMsg)),
                SELECT_PROVIDER)
       ELSE Ret(show_token_prompt(k2, upd, provider_name, k2.ud.token_action), ENTER_TOKEN)

\* handle_existing_token_choice
handle_existing_token_choice(k, upd, rs) ==
    LET user_id == k.ud.user_id
    IN IF StartsWith(upd.data, CB_TOKEN_REPLACE)
       THEN
       LET provider_name == PyReplace(upd.data, CB_TOKEN_REPLACE)
       IN IF user_id = None
          THEN Ret(Edit(k, upd.msg, TextScreen("session_lost")), END)
          ELSE
          LET k1 == Called(k, Call("DELETE", "/selections", NoneSeq, user_id, provider_name, NoneSeq, 30, rs.mut))
              res == api_request_with_error(rs.mut)
          IN IF ~Truthy(res[1])
             THEN Ret(Edit(k1, upd.msg, ErrScreen("failed_remove_token", ErrOr(res[2], "Please try again."))),
                      SELECT_PROVIDER)
             ELSE LET k2 == SetUD(k1, [k1.ud EXCEPT !.token_action = "add"])
                  IN Ret(show_token_prompt(k2, upd, provider_name, "add"), ENTER_TOKEN)
       ELSE Ret(k, SELECT_PROVIDER)

\* handle_manage_servers_callback
handle_manage_servers_callback(k, upd, rs) ==
    show_main_menu(k, upd, rs)

\* manage_servers (the /manage command)
manage_servers(k, upd, rs) ==
    IF k.ud.user_id = None
    THEN Ret(Reply(k, TextScreen("session_lost")), END)
    ELSE show_main_menu(k, upd, rs)

\* a cancel that always goes to the token inventory
token_cancel_to_inventory(k, upd, rs) ==
    show_manage_tokens(k, upd, rs)

\* handle_token_cancel
handle_token_cancel(k, upd, rs) ==
    IF k.ud.return_to = "manage_tokens"
    THEN show_manage_tokens(k, upd, rs)
    ELSE
    LET k1 == Called(k, Call("GET", "/providers", NoneSeq, None, NoneSeq, NoneSeq, 5, rs.providers))
        providers == api_request(rs.providers)
    IN IF ~Truthy(providers)
       THEN Ret(Edit(k1, upd.msg, TextScreen("could_not_load_providers")), END)
       ELSE Ret(Edit(k1, upd.msg, Screen("provider_list", ActiveNames(providers), <<>>, <<>>, NoMsg)),
                SELECT_PROVIDER)

\* a successful submission that leaves the pending action in place
KeepTokenAction(ud) == ud

\* context.user_data.pop("token_action", None)
PopTokenAction(ud) == [ud EXCEPT !.token_action = None]

\* handle_token_input
handle_token_input(k, upd, rs) ==
    LET token == Strip(upd.data)
        user_id == k.ud.user_id
        provider == k.ud.provider
    IN IF token = <<>>
       THEN Ret(Reply(k, TextScreen("token_empty")), ENTER_TOKEN)
       ELSE
       LET k1 == Called(k, Call("POST", "/selections", NoneSeq, user_id, provider, token, 5, rs.mut))
           resp == api_request(rs.mut)
       IN IF ~Truthy(resp)
          THEN Ret(Reply(k1, TextScreen("token_failed")), ENTER_TOKEN)
          ELSE
          LET k2 == Reply(k1, IF k1.ud.token_action = "update"
                              THEN TextScreen("token_updated") ELSE TextScreen("token_verified"))
              k3 == SetUD(k2, PopTokenAction(k2.ud))
              k4 == Called(k3, Call("GET", "/stats/aggregate", NoneSeq, None, NoneSeq, NoneSeq, 5, rs.stats))
              k5 == Reply(k4, Screen("about_token", <<provider>>, <<>>, <<>>, NoMsg))
          IN IF k5.ud.return_to = "manage_tokens"
             THEN show_manage_tokens(k5, upd, rs)
             ELSE show_main_menu(k5, upd, rs)

\* cancel (the /cancel command)
cancel(k, upd, rs) ==
    Ret(Reply(k, TextScreen("cancelled")), END)

\* show_server_details
show_server_details(k, upd, rs) ==
    LET user_id == k.ud.user_id
        server_id == k.ud.selected_server_id
        k1 == Called(k, Call("GET", "/servers/{id}", server_id, user_id, NoneSeq, NoneSeq, 5, rs.server))
        server == api_request(rs.server)
    IN IF ~Truthy(server)
       THEN show_main_menu(Edit(k1, upd.msg, TextScreen("server_not_found")), upd, rs)
       ELSE Ret(Edit(k1, upd.msg, Screen("details", <<server_id>>, server.items, server.tags, NoMsg)),
                SERVER_DETAILS)

\* the if/elif chain of handle_main_menu_callback: the branch that takes the data
MainMenuBranch(data) ==
    CASE data = CB_REFRESH -> "refresh"
      [] data = CB_MANAGE_SERVERS -> "manage_servers"
      [] data = CB_BACK -> "back"
      [] data = CB_CREATE -> "create"
      [] StartsWith(data, CB_SERVER) -> "server"
      [] StartsWith(data, CB_MANAGE) -> "manage"
      [] StartsWith(data, CB_REFRESH_SERVER) -> "refresh_server"
      [] StartsWith(data, CB_DELETE) -> "delete"
      [] data = CB_MANAGE_TOKENS -> "manage_tokens"
      [] data = CB_ADD_PROVIDER -> "add_provider"
      [] data = CB_BACK_TOKENS -> "back_tokens"
      [] StartsWith(data, CB_TOKEN_UPDATE) -> "token_update"
      [] StartsWith(data, CB_TOKEN_REMOVE) -> "token_remove"
      [] data = CB_DELETE_ACCOUNT -> "delete_account"
      [] OTHER -> "other"

\* handle_main_menu_callback
handle_main_menu_callback(k, upd, rs) ==
    LET data == upd.data
        user_id == k.ud.user_id
        branch == MainMenuBranch(data)
    IN CASE branch \in {"refresh", "manage_servers"} -> show_main_menu(k, upd, rs)
         [] branch = "back" -> start(k, upd, rs)
         [] branch = "create" ->
            IF user_id = None
            THEN Ret(Reply(k, TextScreen("session_lost")), END)
            ELSE
            LET k1 == Edit(k, upd.msg, TextScreen("creating_server"))
                k2 == Called(k1, Call("POST", "/servers/create", NoneSeq, user_id, NoneSeq, NoneSeq, 60, rs.mut))
                res == api_request_with_error(rs.mut)
                k3 == IF ~Truthy(res[1])
                      THEN Reply(k2, ErrScreen("failed_create_server", ErrOr(res[2], "Check your token/funds.")))
                      ELSE k2
            IN show_main_menu(k3, upd, rs)
         [] branch = "server" ->
            LET server_id == PyReplace(data, CB_SERVER)
            IN show_server_details(SetUD(k, [k.ud EXCEPT !.selected_server_id = server_id]), upd, rs)
         [] branch = "manage" ->
            LET server_id == PyReplace(data, CB_MANAGE)
            IN show_server_details(SetUD(k, [k.ud EXCEPT !.selected_server_id = server_id]), upd, rs)
         [] branch = "refresh_server" ->
            LET server_id == PyReplace(data, CB_REFRESH_SERVER)
                k1 == Edit(k, upd.msg, TextScreen("refreshing_server"))
                k2 == Called(k1, Call("GET", "/servers/{id}", server_id, user_id, NoneSeq, NoneSeq, 5, rs.server))
            IN show_main_menu(k2, upd, rs)
         [] branch = "delete" ->
            LET server_id == PyReplace(data, CB_DELETE)
                k1 == Edit(k, upd.msg, TextScreen("deleting_server"))
                k2 == Called(k1, Call("DELETE", "/servers/{id}", server_id, user_id, NoneSeq, NoneSeq, 5, rs.mut))
                k3 == Reply(k2, TextScreen("server_deleted"))
            IN show_main_menu(k3, upd, rs)
         [] branch = "manage_tokens" ->
            show_manage_tokens(SetUD(k, [k.ud EXCEPT !.return_to = "manage_tokens"]), upd, rs)
         [] branch = "add_provider" ->
            show_provider_selection(SetUD(k, [k.ud EXCEPT !.return_to = None]), upd, rs)
         [] branch = "back_tokens" ->
            show_main_menu(SetUD(k, [k.ud EXCEPT !.return_to = None]), upd, rs)
         [] branch = "token_update" ->
            LET provider_name == PyReplace(data, CB_TOKEN_UPDATE)
                k1 == SetUD(k, [k.ud EXCEPT !.provider = provider_name, !.return_to = "manage_tokens"])
                k2 == Called(k1, Call("GET", "/selections", NoneSeq, user_id, NoneSeq, NoneSeq, 5, rs.selections))
                selections == api_request(rs.selections)
                has_token == HasSelection(selections, provider_name)
                k3 == SetUD(k2, [k2.ud EXCEPT !.token_action = IF has_token THEN "update" ELSE "add"])
            IN Ret(show_token_prompt(k3, upd, provider_name, k3.ud.token_action), ENTER_TOKEN)
         [] branch = "token_remove" ->
            LET provider_name == PyReplace(data, CB_TOKEN_REMOVE)
                k1 == Called(k, Call("DELETE", "/selections", NoneSeq, user_id, provider_name, NoneSeq, 30, rs.mut))
                res == api_request_with_error(rs.mut)
                k2 == IF ~Truthy(res[1])
                      THEN Reply(k1, ErrScreen("failed_remove_token", ErrOr(res[2], "Please try again.")))
                      ELSE Reply(k1, TextScreen("token_removed"))
            IN show_manage_tokens(k2, upd, rs)
         [] branch = "delete_account" ->
            Ret(Edit(k, upd.msg, TextScreen("confirm")), ACCOUNT_CONFIRM)
         [] OTHER -> Ret(k, MAIN_MENU)

\* the error text of the metrics branch names port 9090 and a refused connection
REFUSED_9090 == "connect ECONNREFUSED 10.0.0.1:9090"
MentionsRefused9090(reason) == reason.s = REFUSED_9090

\* the if/elif chain of handle_server_details_callback
ServerDetailsBranch(data) ==
    CASE data = CB_BACK -> "back"
      [] data = CB_BACK_DETAILS -> "back_details"
      [] StartsWith(data, CB_DELETE) -> "delete"
      [] StartsWith(data, CB_CHECK) -> "check"
      [] StartsWith(data, CB_VPN_VERIFY) -> "vpn_verify"
      [] StartsWith(data, CB_SSH_KEY) -> "ssh_key"
      [] StartsWith(data, CB_METRICS) -> "metrics"
      [] OTHER -> "other"

\* a result screen of the details view: one Back button (back_details)
ResultScreen(what, tags, reason) == Screen("result", <<>>, <<>>, <<what>> \o tags, reason)

\* handle_server_details_callback
handle_server_details_callback(k, upd, rs) ==
    LET data == upd.data
        user_id == k.ud.user_id
        branch == ServerDetailsBranch(data)
    IN CASE branch = "back" -> show_main_menu(k, upd, rs)
         [] branch = "back_details" -> show_server_details(k, upd, rs)
         [] branch = "delete" ->
            LET server_id == PyReplace(data, CB_DELETE)
                k1 == Edit(k, upd.msg, TextScreen("deleting_server"))
                k2 == Called(k1, Call("DELETE", "/servers/{id}", server_id, user_id, NoneSeq, NoneSeq, 5, rs.mut))
                k3 == Edit(k2, upd.msg, TextScreen("server_deleted"))
            IN show_main_menu(k3, upd, rs)
         [] branch = "check" ->
            LET server_id == PyReplace(data, CB_CHECK)
                k1 == Edit(k, upd.msg, TextScreen("checking"))
                k2 == Called(k1, Call("GET", "/servers/{id}/check", server_id, user_id, NoneSeq, NoneSeq, 5, rs.aux))
                result == api_request(rs.aux)
            IN IF ~Truthy(result)
               THEN Ret(Edit(k2, upd.msg, ResultScreen("check_failed", <<>>, NoMsg)), SERVER_DETAILS)
               ELSE Ret(Edit(k2, upd.msg, ResultScreen("check_result", result.tags, NoMsg)), SERVER_DETAILS)
         [] branch = "vpn_verify" ->
            LET server_id == PyReplace(data, CB_VPN_VERIFY)
                k1 == Edit(k, upd.msg, TextScreen("verifying"))
                k2 == Called(k1, Call("GET", "/servers/{id}/vpn-verify", server_id, user_id, NoneSeq, NoneSeq, 15, rs.aux))
                res == api_request_with_error(rs.aux)
            IN IF ~Truthy(res[1])
               THEN Ret(Edit(k2, upd.msg, ResultScreen("verify_failed", <<>>, ErrOr(res[2], "Server unreachable."))),
                        SERVER_DETAILS)
               ELSE Ret(Edit(k2, upd.msg, ResultScreen(IF res[1].flag THEN "vpn_verified" ELSE "vpn_not_running",
                                                       <<>>, NoMsg)), SERVER_DETAILS)
         [] branch = "ssh_key" ->
            LET server_id == PyReplace(data, CB_SSH_KEY)
                k1 == Edit(k, upd.msg, TextScreen("fetching_key"))
                k2 == Called(k1, Call("GET", "/servers/{id}/ssh-key", server_id, user_id, NoneSeq, NoneSeq, 15, rs.aux))
                res == api_request_with_error(rs.aux)
            IN IF ~Truthy(res[1]) \/ ~res[1].flag
               THEN show_server_details(
                        Reply(k2, ErrScreen("could_not_fetch_key", ErrOr(res[2], "Key not available."))), upd, rs)
               ELSE
               LET k3 == Called(k2, Call("GET", "/servers/{id}", server_id, user_id, NoneSeq, NoneSeq, 5, rs.server))
                   k4 == Reply(k3, TextScreen("key_document"))
               IN show_server_details(k4, upd, rs)
         [] branch = "metrics" ->
            LET server_id == PyReplace(data, CB_METRICS)
                k1 == Edit(k, upd.msg, TextScreen("fetching_metrics"))
                k2 == Called(k1, Call("GET", "/servers/{id}/metrics", server_id, user_id, NoneSeq, NoneSeq, 15, rs.aux))
                res == api_request_with_error(rs.aux)
                reason == ErrOr(res[2], "Server unreachable or Conduit not running.")
            IN IF ~Truthy(res[1])
               THEN Ret(Edit(k2, upd.msg,
                             IF MentionsRefused9090(reason)
                             THEN ResultScreen("metrics_conduit_not_running", <<>>, NoMsg)
                             ELSE ResultScreen("metrics_failed", <<>>, reason)), SERVER_DETAILS)
               ELSE Ret(Edit(k2, upd.msg, ResultScreen("metrics", res[1].tags, NoMsg)), SERVER_DETAILS)
         [] OTHER -> Ret(k, SERVER_DETAILS)

\* a deletion that forgets the backend user id and keeps the rest of the session
ClearUserIdOnly(ud) == [ud EXCEPT !.user_id = None]

\* context.user_data.clear()
ClearUserData(ud) == EmptyUserData

\* handle_account_confirm_callback
handle_account_confirm_callback(k, upd, rs) ==
    LET data == upd.data
        user_id == k.ud.user_id
    IN IF data = CB_CANCEL_DELETE_ACCOUNT
       THEN show_main_menu(k, upd, rs)
       ELSE IF data = CB_CONFIRM_DELETE_ACCOUNT
       THEN
       LET k1 == Edit(k, upd.msg, TextScreen("deleting_account"))
           k2 == Called(k1, Call("DELETE", "/user", NoneSeq, user_id, NoneSeq, NoneSeq, 20, rs.mut))
           res == api_request_with_error(rs.mut)
       IN IF Truthy(res[1])
          THEN Ret(Reply(SetUD(k2, ClearUserData(k2.ud)), TextScreen("data_deleted")), END)
          ELSE show_main_menu(
                   Reply(k2, ErrScreen("failed_delete_account", ErrOr(res[2], "Please try again."))), upd, rs)
       ELSE Ret(k, MAIN_MENU)

(* ------------------------------------------------------------------ *)
(* Updates and their dispatch (bot.py:1032-1062)                        *)
(* ------------------------------------------------------------------ *)

CMD_START == <<"/","s","t","a","r","t">>
CMD_CANCEL == <<"/","c","a","n","c","e","l">>
CMD_MANAGE == <<"/","m","a","n","a","g","e">>

CommandUpd(u, c, cmd) == [type |-> "command", data |-> cmd, msg |-> NoId, user |-> u, chat |-> c]
TextUpd(u, c, text) == [type |-> "text", data |-> text, msg |-> NoId, user |-> u, chat |-> c]
CallbackUpd(u, c, m, d) == [type |-> "callback", data |-> d, msg |-> m, user |-> u, chat |-> c]

\* The handler that takes an update when the conversation of its (chat, user)
\* key is in `state`: ConversationHandler checks the entry points first
\* (allow_reentry), then the state's handlers in order, then the fallbacks; an
\* update it does not take goes to the /manage CommandHandler of the same group.
Dispatch(state, upd) ==
    CASE upd.type = "command" /\ upd.data = CMD_START -> "start"
      [] state = SELECT_PROVIDER /\ upd.type = "callback" /\ StartsWith(upd.data, CB_PROVIDER) ->
            "handle_provider_selection"
      [] state = SELECT_PROVIDER /\ upd.type = "callback" /\ StartsWith(upd.data, CB_TOKEN_REPLACE) ->
            "handle_existing_token_choice"
      [] state = SELECT_PROVIDER /\ upd.type = "callback" /\ upd.data = CB_MANAGE_SERVERS ->
            "handle_manage_servers_callback"
      [] state = ENTER_TOKEN /\ upd.type = "callback" /\ upd.data = CB_TOKEN_CANCEL -> "handle_token_cancel"
      [] state = ENTER_TOKEN /\ upd.type = "text" -> "handle_token_input"
      [] state = MAIN_MENU /\ upd.type = "callback" -> "handle_main_menu_callback"
      [] state = SERVER_DETAILS /\ upd.type = "callback" -> "handle_server_details_callback"
      [] state = ACCOUNT_CONFIRM /\ upd.type = "callback" -> "handle_account_confirm_callback"
      [] state # END /\ upd.type = "command" /\ upd.data = CMD_CANCEL -> "cancel"
      [] upd.type = "command" /\ upd.data = CMD_MANAGE -> "manage_servers"
      [] OTHER -> "none"

(* ------------------------------------------------------------------ *)
(* What the backend can answer                                          *)
(* ------------------------------------------------------------------ *)

HETZNER == <<"h","e","t","z","n","e","r">>
LINODE == <<"l","i","n","o","d","e">>
\* the provider name as the backend may spell it in a selection
HETZNER_TITLE == <<"H","e","t","z","n","e","r">>
SERVER_1 == <<"s","1">>

\* the backend's user id for Telegram user u, and the canonical id GET /user
\* may name instead
SignupId(u) == IF u = 1 THEN "A1" ELSE "B1"
CanonicalId(u) == IF u = 1 THEN "A2" ELSE "B2"

INVALID_TOKEN == "invalid token"
Rejected == HttpErrResp(400, INVALID_TOKEN, <<>>)


RespDomain(u, f) ==
    CASE f = "signup" -> {OkResp(JDict(SignupId(u), <<>>, FALSE)), UnreachableResp}
      [] f = "stats" -> {OkResp(JDict(None, <<>>, FALSE))}
      [] f = "selections" -> {OkResp(JList(<<>>, <<>>)), OkResp(JList(<<HETZNER_TITLE, LINODE>>, <<>>)), UnreachableResp}
      [] f = "user" -> {OkResp(JDict(SignupId(u), <<>>, FALSE)),
                        OkResp(JDict(CanonicalId(u), <<HETZNER>>, FALSE)),
                        OkResp(JDict(CanonicalId(u), <<>>, FALSE)), UnreachableResp}
      [] f = "servers" -> {OkResp(JList(<<>>, <<>>)), OkResp(JList(<<SERVER_1>>, <<"Loading">>)), UnreachableResp}
      [] f = "providers" -> {OkResp(JList(<<HETZNER, LINODE>>, <<"active", "active">>)),
                             OkResp(JList(<<>>, <<>>)), UnreachableResp}
      [] f = "mut" -> {OkResp(JDict(None, <<>>, FALSE)), OkResp(JEmptyDict), Rejected,
                       UnreachableResp, BadJsonResp}
      [] f = "server" -> {OkResp(JDict(None, <<SERVER_1>>, FALSE)), HttpErrResp(404, "", <<>>), UnreachableResp}
      [] f = "aux" -> {OkResp(JDict(None, <<>>, TRUE)), OkResp(JDict(None, <<>>, FALSE)),
                       HttpErrResp(500, REFUSED_9090, <<>>), UnreachableResp}
      [] OTHER -> {UnreachableResp}

\* the plain text messages a user sends
Texts == {<<" ">>, <<" ","t","k"," ">>}

(* ------------------------------------------------------------------ *)
(* Actions: one per handler                                             *)
(* ------------------------------------------------------------------ *)

Init ==
    /\ conv = [c \in Chats |-> [u \in Users |-> END]]
    /\ user_data = [u \in Users |-> EmptyUserData]
    /\ msgs = [c \in Chats |-> [m \in MsgIds |-> UnusedMsg]]
    /\ turn = NoTurn
    /\ calls = <<>>
    /\ shown = <<>>
    /\ probe = NoProbe
    /\ steps = 0
    /\ update_queue = <<>>
    /\ tasks = [u \in Users |-> NoTask]
    /\ prompted = [u \in Users |-> NoneSeq]

\* What msgs keeps of a message once the turn is over: its buttons, and its
\* content as far as a later edit can meet it again. A later turn edits the
\* pressed message, which has buttons, or writes a server list onto the anchor:
\* the text of a message without buttons is never written onto it again, and a
\* result screen is only ever replaced by the details or the server list.
PlainMsg == TextScreen("text")
Kept(sc) ==
    IF sc \in {UnusedMsg, DeletedMsg} THEN sc
    ELSE IF Keyboard(sc) = {} THEN PlainMsg
    ELSE IF sc.kind = "result" THEN TextScreen("result")
    ELSE sc

\* the endpoint class a request belongs to
FieldOf(call) ==
    CASE call.path = "/signup" -> "signup"
      [] call.path = "/stats/aggregate" -> "stats"
      [] call.path = "/selections" /\ call.method = "GET" -> "selections"
      [] call.path = "/user" /\ call.method = "GET" -> "user"
      [] call.path = "/servers" -> "servers"
      [] call.path = "/providers" -> "providers"
      [] call.path = "/servers/{id}" /\ call.method = "GET" -> "server"
      [] call.method \in {"POST", "DELETE"} -> "mut"
      [] OTHER -> "aux"

\* no endpoint answers
NoBackend ==
    [signup |-> UnreachableResp, stats |-> UnreachableResp, selections |-> UnreachableResp,
     user |-> UnreachableResp, servers |-> UnreachableResp, providers |-> UnreachableResp,
     mut |-> UnreachableResp, server |-> UnreachableResp, aux |-> UnreachableResp]

\* the ways the backend can answer the requests of a turn of user u, one
\* response per endpoint class (an endpoint the turn does not reach is left
\* unanswered)
Backends(u) ==
    [signup : RespDomain(u, "signup") \cup {UnreachableResp},
     stats : RespDomain(u, "stats") \cup {UnreachableResp},
     selections : RespDomain(u, "selections") \cup {UnreachableResp},
     user : RespDomain(u, "user") \cup {UnreachableResp},
     servers : RespDomain(u, "servers") \cup {UnreachableResp},
     providers : RespDomain(u, "providers") \cup {UnreachableResp},
     mut : RespDomain(u, "mut") \cup {UnreachableResp},
     server : RespDomain(u, "server") \cup {UnreachableResp},
     aux : RespDomain(u, "aux") \cup {UnreachableResp}]

\* One more request of a turn is answered. T gives the turn's final context
\* for each way rs the backend answers. A run p is the responses rs to the
\* endpoint classes in `fixed`; in a run that is not done the first request to
\* another class is answered in each way its endpoint can answer.
Answer(T, u, runs) ==
    UNION {IF p.done THEN {p}
           ELSE LET k == T[p.rs]
                    open == {i \in 1..Len(k.calls) : FieldOf(k.calls[i]) \notin p.fixed}
                IN IF open = {} THEN {[p EXCEPT !.done = TRUE]}
                   ELSE LET f == FieldOf(k.calls[CHOOSE i \in open : \A j \in open : i <= j])
                        IN {[rs |-> [p.rs EXCEPT ![f] = r], fixed |-> p.fixed \cup {f}, done |-> FALSE] :
                                r \in RespDomain(u, f)}
           : p \in runs}

\* The ways a turn can end, one for each way the backend can answer the
\* requests the turn makes (a turn makes requests to nine endpoint classes at
\* most).
Outcomes(T, u) ==
    LET r0 == {[rs |-> NoBackend, fixed |-> {}, done |-> FALSE]}
        r1 == Answer(T, u, r0)
        r2 == Answer(T, u, r1)
        r3 == Answer(T, u, r2)
        r4 == Answer(T, u, r3)
        r5 == Answer(T, u, r4)
        r6 == Answer(T, u, r5)
        r7 == Answer(T, u, r6)
        r8 == Answer(T, u, r7)
        r9 == Answer(T, u, r8)
        r10 == Answer(T, u, r9)
    IN {T[p.rs] : p \in r10}

\* The turn of handler h on update upd ends with context k. A handler of the
\* conversation sets the key's state to what it returns (END drops the key);
\* when it raises, the state stays. /manage runs outside the conversation.
\* the provider of the token prompt rendered last in shown, or old when the
\* turn rendered no token prompt
LastPrompted(sh, old) ==
    LET P == {i \in 1..Len(sh) : sh[i].sc.kind = "token_prompt"}
    IN IF P = {} THEN old ELSE sh[CHOOSE i \in P : \A j \in P : j <= i].sc.ids[1]

Finish(u, c, upd, h, k) ==
    /\ ~k.full
    /\ steps' = steps + 1
    /\ conv' = [conv EXCEPT ![c][u] =
                    IF h = "manage_servers" \/ k.exc # "" \/ k.ret = NoRet THEN @ ELSE k.ret]
    /\ user_data' = [user_data EXCEPT ![u] = k.ud]
    /\ msgs' = [msgs EXCEPT ![c] = [m \in MsgIds |-> Kept(k.ms[m])]]
    /\ turn' = [handler |-> h, user |-> u, chat |-> c, pre |-> conv[c][u], type |-> upd.type,
                data |-> upd.data, msg |-> upd.msg, exc |-> k.exc, ud |-> user_data[u]]
    /\ calls' = k.calls
    /\ shown' = k.shown
    /\ prompted' = [prompted EXCEPT ![u] = LastPrompted(k.shown, @)]
    /\ UNCHANGED <<probe, update_queue, tasks>>

\* the dispatcher takes update upd, which goes to handler h
Takes(u, c, upd, h) ==
    /\ turn = NoTurn
    /\ steps < MaxSteps
    /\ Dispatch(conv[c][u], upd) = h

Start(u, c) ==
    LET upd == CommandUpd(u, c, CMD_START)
    IN /\ Takes(u, c, upd, "start")
       /\ \E k \in Outcomes([rs \in Backends(u) |-> start(TurnCtx(u, c), upd, rs)], u) : Finish(u, c, upd, "start", k)

Cancel(u, c) ==
    LET upd == CommandUpd(u, c, CMD_CANCEL)
    IN /\ Takes(u, c, upd, "cancel")
       /\ \E k \in Outcomes([rs \in Backends(u) |-> cancel(TurnCtx(u, c), upd, rs)], u) : Finish(u, c, upd, "cancel", k)

ManageServers(u, c) ==
    LET upd == CommandUpd(u, c, CMD_MANAGE)
    IN /\ Takes(u, c, upd, "manage_servers")
       /\ \E k \in Outcomes([rs \in Backends(u) |-> manage_servers(TurnCtx(u, c), upd, rs)], u) : Finish(u, c, upd, "manage_servers", k)

HandleTokenInput(u, c) ==
    \E text \in Texts :
        LET upd == TextUpd(u, c, text)
        IN /\ Takes(u, c, upd, "handle_token_input")
           /\ \E k \in Outcomes([rs \in Backends(u) |-> handle_token_input(TurnCtx(u, c), upd, rs)], u) :
                Finish(u, c, upd, "handle_token_input", k)

HandleProviderSelection(u, c) ==
    \E m \in MsgIds : \E d \in Keyboard(msgs[c][m]) :
        LET upd == CallbackUpd(u, c, m, d)
        IN /\ Takes(u, c, upd, "handle_provider_selection")
           /\ \E k \in Outcomes([rs \in Backends(u) |-> handle_provider_selection(TurnCtx(u, c), upd, rs)], u) :
                Finish(u, c, upd, "handle_provider_selection", k)

HandleExistingTokenChoice(u, c) ==
    \E m \in MsgIds : \E d \in Keyboard(msgs[c][m]) :
        LET upd == CallbackUpd(u, c, m, d)
        IN /\ Takes(u, c, upd, "handle_existing_token_choice")
           /\ \E k \in Outcomes([rs \in Backends(u) |-> handle_existing_token_choice(TurnCtx(u, c), upd, rs)], u) :
                Finish(u, c, upd, "handle_existing_token_choice", k)

HandleManageServersCallback(u, c) ==
    \E m \in MsgIds : \E d \in Keyboard(msgs[c][m]) :
        LET upd == CallbackUpd(u, c, m, d)
        IN /\ Takes(u, c, upd, "handle_manage_servers_callback")
           /\ \E k \in Outcomes([rs \in Backends(u) |-> handle_manage_servers_callback(TurnCtx(u, c), upd, rs)], u) :
                Finish(u, c, upd, "handle_manage_servers_callback", k)

HandleTokenCancel(u, c) ==
    \E m \in MsgIds : \E d \in Keyboard(msgs[c][m]) :
        LET upd == CallbackUpd(u, c, m, d)
        IN /\ Takes(u, c, upd, "handle_token_cancel")
           /\ \E k \in Outcomes([rs \in Backends(u) |-> handle_token_cancel(TurnCtx(u, c), upd, rs)], u) :
                Finish(u, c, upd, "handle_token_cancel", k)

HandleMainMenuCallback(u, c) ==
    \E m \in MsgIds : \E d \in Keyboard(msgs[c][m]) :
        LET upd == CallbackUpd(u, c, m, d)
        IN /\ Takes(u, c, upd, "handle_main_menu_callback")
           /\ \E k \in Outcomes([rs \in Backends(u) |-> handle_main_menu_callback(TurnCtx(u, c), upd, rs)], u) :
                Finish(u, c, upd, "handle_main_menu_callback", k)

HandleServerDetailsCallback(u, c) ==
    \E m \in MsgIds : \E d \in Keyboard(msgs[c][m]) :
        LET upd == CallbackUpd(u, c, m, d)
        IN /\ Takes(u, c, upd, "handle_server_details_callback")
           /\ \E k \in Outcomes([rs \in Backends(u) |-> handle_server_details_callback(TurnCtx(u, c), upd, rs)], u) :
                Finish(u, c, upd, "handle_server_details_callback", k)

HandleAccountConfirmCallback(u, c) ==
    \E m \in MsgIds : \E d \in Keyboard(msgs[c][m]) :
        LET upd == CallbackUpd(u, c, m, d)
        IN /\ Takes(u, c, upd, "handle_account_confirm_callback")
           /\ \E k \in Outcomes([rs \in Backends(u) |-> handle_account_confirm_callback(TurnCtx(u, c), upd, rs)], u) :
                Finish(u, c, upd, "handle_account_confirm_callback", k)

\* the user deletes a message of the bot from the chat
DeleteMessage(c) ==
    \E m \in MsgIds :
        /\ turn = NoTurn
        /\ msgs[c][m] \notin {UnusedMsg, DeletedMsg}
        /\ steps < MaxSteps
        /\ steps' = steps + 1
        /\ msgs' = [msgs EXCEPT ![c][m] = DeletedMsg]
        /\ UNCHANGED <<conv, user_data, turn, calls, shown, probe, update_queue, tasks, prompted>>

\* the turn is over: the dispatcher takes the next update
EndTurn ==
    /\ turn # NoTurn
    /\ turn' = NoTurn
    /\ calls' = <<>>
    /\ shown' = <<>>
    /\ UNCHANGED <<conv, user_data, msgs, probe, steps, update_queue, tasks, prompted>>

\* one user in a private chat with the bot
Next ==
    \/ Start(1, 1)
    \/ Cancel(1, 1)
    \/ ManageServers(1, 1)
    \/ HandleTokenInput(1, 1)
    \/ HandleProviderSelection(1, 1)
    \/ HandleExistingTokenChoice(1, 1)
    \/ HandleManageServersCallback(1, 1)
    \/ HandleTokenCancel(1, 1)
    \/ HandleMainMenuCallback(1, 1)
    \/ HandleServerDetailsCallback(1, 1)
    \/ HandleAccountConfirmCallback(1, 1)
    \/ DeleteMessage(1)
    \/ EndTurn

Spec == Init /\ [][Next]_vars

(* ------------------------------------------------------------------ *)
(* Two users: user 1 in a group chat (chat 1) that user 2 is in as      *)
(* well, user 2 also in a private chat of their own (chat 2)            *)
(* ------------------------------------------------------------------ *)

\* updates the bot handles in a run with two users
MaxUserSteps == 3

\* who writes in which chat: <<user, chat>>
UserChats == {<<1, 1>>, <<2, 1>>, <<2, 2>>}

\* the bot handles an update of user u in chat c
UserTurn(u, c) ==
    \/ Start(u, c)
    \/ Cancel(u, c)
    \/ ManageServers(u, c)
    \/ HandleTokenInput(u, c)
    \/ HandleProviderSelection(u, c)
    \/ HandleExistingTokenChoice(u, c)
    \/ HandleManageServersCallback(u, c)
    \/ HandleTokenCancel(u, c)
    \/ HandleMainMenuCallback(u, c)
    \/ HandleServerDetailsCallback(u, c)
    \/ HandleAccountConfirmCallback(u, c)

NextUsers ==
    \/ steps < MaxUserSteps /\ \E p \in UserChats : UserTurn(p[1], p[2])
    \/ EndTurn

SpecUsers == Init /\ [][NextUsers]_vars

(* ------------------------------------------------------------------ *)
(* Id extraction as a function of its own (data.replace(PREFIX, ""))    *)
(* ------------------------------------------------------------------ *)

\* the prefixes of the callback data that carry an id
IdPrefixes ==
    {CB_PROVIDER, CB_SERVER, CB_MANAGE, CB_REFRESH_SERVER, CB_DELETE, CB_CHECK, CB_METRICS,
     CB_VPN_VERIFY, CB_SSH_KEY, CB_TOKEN_UPDATE, CB_TOKEN_REMOVE, CB_TOKEN_REPLACE}

\* ids are built from a letter, a digit and the texts of the prefixes
IdPieces == {<<"a">>, <<"7">>} \cup IdPrefixes

RECURSIVE IdsOf(_)
IdsOf(n) ==
    IF n = 0 THEN {<<>>} ELSE {p \o id : p \in IdPieces, id \in IdsOf(n - 1)}

Ids == UNION {IdsOf(n) : n \in 1..MaxIdPieces}

\* a handler extracts the id from the callback data prefix + id
Extract ==
    \E prefix \in IdPrefixes : \E id \in Ids :
        /\ probe' = [fn |-> "extract", prefix |-> prefix, id |-> id,
                     out |-> PyReplace(prefix \o id, prefix)]
        /\ UNCHANGED <<conv, user_data, msgs, turn, calls, shown, steps, update_queue, tasks, prompted>>

NextExtract == Extract

SpecExtract == Init /\ [][NextExtract]_vars

(* ------------------------------------------------------------------ *)
(* Properties                                                           *)
(* ------------------------------------------------------------------ *)

\* the state of the conversation key of the turn handled last, after the turn
PostState == conv[turn.chat][turn.user]
\* the session of that turn's user, after the turn
PostData == user_data[turn.user]
\* the texts the turn sent or wrote onto a message
ShownKinds == {shown[i].sc.kind : i \in 1..Len(shown)}
\* the turn's requests of one kind, and the response to the first of them
\* (no response when the request was not made)
CallsTo(method, path) ==
    {i \in 1..Len(calls) : calls[i].method = method /\ calls[i].path = path}
RespOf(method, path) ==
    LET I == CallsTo(method, path)
    IN IF I = {} THEN UnreachableResp ELSE calls[CHOOSE i \in I : \A j \in I : i <= j].resp
\* the items of the list the response carries (none when there is no list)
Listed(method, path) == RespOf(method, path).body.items
\* what follows the prefix in the callback data
Suffix(data, prefix) == SubSeq(data, Len(prefix) + 1, Len(data))

\* C1: in MainMenu, pressing "manage tokens" (callback data manage_tokens) is
\* taken by the manage-tokens branch, renders the token inventory, records the
\* token-management return screen and leaves the conversation in MainMenu.
C1_ManageTokensRendersInventory ==
    (turn.handler = "handle_main_menu_callback" /\ turn.data = CB_MANAGE_TOKENS) =>
        /\ MainMenuBranch(turn.data) = "manage_tokens"
        /\ "inventory" \in ShownKinds
        /\ PostData.return_to = "manage_tokens"
        /\ PostState = MAIN_MENU

\* the "manage tokens" button of the start menu or the action row is pressed in MainMenu
C1_ManageTokensPressed ==
    /\ turn.handler = "handle_main_menu_callback"
    /\ turn.data = CB_MANAGE_TOKENS
    /\ turn.pre = MAIN_MENU

\* C2: when POST /selections of a token submission is rejected with a non-2xx
\* response that carries a reason, the user is shown that reason and the state
\* remains EnterToken.
C2_RejectionReasonShown ==
    \A i \in CallsTo("POST", "/selections") :
        (turn.handler = "handle_token_input" /\ calls[i].resp.kind = "http" /\ calls[i].resp.msg # "") =>
            /\ \E j \in 1..Len(shown) : shown[j].sc.reason = Msg(calls[i].resp.msg)
            /\ PostState = ENTER_TOKEN

\* a token submission is rejected with the reason "invalid token"
C2_TokenRejected ==
    /\ turn.handler = "handle_token_input"
    /\ \E i \in CallsTo("POST", "/selections") : calls[i].resp = Rejected

\* the token prompts the turn rendered
TokenPrompts == {i \in 1..Len(shown) : shown[i].sc.kind = "token_prompt"}

\* C3: whenever a turn enters EnterToken, the session's selected provider is
\* the provider the prompt of this entry names and the pending action is the
\* action of this entry ("add" when the entry is a provider selection or
\* "remove & add new token").
C3_TokenPromptEntryIsFresh ==
    (turn # NoTurn /\ PostState = ENTER_TOKEN) =>
        \A i \in TokenPrompts :
            /\ PostData.provider = shown[i].sc.ids[1]
            /\ PostData.token_action = (IF shown[i].sc.tags[1] = "Update token" THEN "update" ELSE "add")
            /\ turn.handler \in {"handle_provider_selection", "handle_existing_token_choice"}
                    => PostData.token_action = "add"

\* a turn enters EnterToken with a prompt
C3_EntersEnterToken ==
    /\ turn # NoTurn
    /\ PostState = ENTER_TOKEN
    /\ TokenPrompts # {}

\* start ran and the signup gave the user an id
SignupOk ==
    /\ calls # <<>>
    /\ calls[1].path = "/signup"
    /\ calls[1].resp.kind = "ok"
\* the backend's responses list a selection or a server of the user
ReportsExisting ==
    \/ Listed("GET", "/selections") # <<>>
    \/ Listed("GET", "/user") # <<>>
    \/ Listed("GET", "/servers") # <<>>

\* C4 as the spec states it: after a successful signup the controller goes to
\* MainMenu if the backend reports a selection or a server, and otherwise
\* renders the provider list and goes to SelectProvider.
C4_StartLandsInMenuOrProviderList ==
    SignupOk =>
        IF ReportsExisting THEN PostState = MAIN_MENU
        ELSE "provider_list" \in ShownKinds /\ PostState = SELECT_PROVIDER

\* C4: after a successful signup the controller goes to MainMenu if the
\* backend's responses list a selection or a server (the servers are asked for
\* only when GET /user answered); otherwise it renders the provider list and
\* goes to SelectProvider when GET /providers lists a provider, and shows an
\* error and ends the conversation when it does not.
C4_StartLandsByBackendReport ==
    SignupOk =>
        IF ReportsExisting THEN "start_menu" \in ShownKinds /\ PostState = MAIN_MENU
        ELSE IF Listed("GET", "/providers") # <<>>
        THEN "provider_list" \in ShownKinds /\ PostState = SELECT_PROVIDER
        ELSE "could_not_fetch_providers" \in ShownKinds /\ PostState = END

\* a user with a server and no selection lands in MainMenu
C4_ServerWithoutSelection ==
    /\ SignupOk
    /\ Listed("GET", "/selections") = <<>>
    /\ Listed("GET", "/user") = <<>>
    /\ Listed("GET", "/servers") # <<>>
    /\ PostState = MAIN_MENU

\* the backend lists a saved token for the provider the pressed button names
SavedTokenReported ==
    \E i \in 1..Len(Listed("GET", "/selections")) :
        Lower(Listed("GET", "/selections")[i]) = Lower(Suffix(turn.data, CB_PROVIDER))

\* C5: in SelectProvider, choosing a provider with a saved token keeps the
\* state and shows the replace/keep actions without a token prompt; choosing a
\* provider without one renders the token prompt and moves to EnterToken,
\* where a plain text message is taken as the token.
C5_ProviderChoice ==
    turn.handler = "handle_provider_selection" =>
        /\ turn.pre = SELECT_PROVIDER
        /\ IF SavedTokenReported
           THEN /\ PostState = SELECT_PROVIDER
                /\ ShownKinds = {"replace_keep"}
           ELSE /\ PostState = ENTER_TOKEN
                /\ ShownKinds = {"token_prompt"}
                /\ \A text \in Texts :
                      Dispatch(PostState, TextUpd(turn.user, turn.chat, text)) = "handle_token_input"

\* a provider with a saved token is chosen
C5_SavedProviderChosen ==
    /\ turn.handler = "handle_provider_selection"
    /\ SavedTokenReported

\* the backend accepted the submitted token
TokenAccepted ==
    /\ turn.handler = "handle_token_input"
    /\ \E i \in CallsTo("POST", "/selections") :
            calls[i].resp.kind = "ok" /\ calls[i].resp.body.t = "dict" /\ ~calls[i].resp.body.empty

EmptyAfterTrim ==
    /\ turn.handler = "handle_token_input"
    /\ \A i \in 1..Len(turn.data) : turn.data[i] = " "

\* C7: when the text received in EnterToken is empty after trimming, no
\* backend call is made, the user is re-prompted, and state and session are
\* unchanged.
C7_EmptyTokenRejectedLocally ==
    EmptyAfterTrim =>
        /\ calls = <<>>
        /\ ShownKinds = {"token_empty"}
        /\ turn.pre = ENTER_TOKEN
        /\ PostState = ENTER_TOKEN
        /\ PostData = turn.ud

\* a text of blanks is received in EnterToken
C7_BlankTextReceived ==
    /\ EmptyAfterTrim
    /\ turn.data # <<>>
    /\ ShownKinds # {}

\* C8 as the spec states it: the cancel action in EnterToken submits no token
\* and returns to the token inventory in the token-management flow and
\* otherwise to the provider list in state SelectProvider.
C8_CancelReturnsToProviderList ==
    turn.handler = "handle_token_cancel" =>
        /\ CallsTo("POST", "/selections") = {}
        /\ IF turn.ud.return_to = "manage_tokens"
           THEN "inventory" \in ShownKinds
           ELSE "provider_list" \in ShownKinds /\ PostState = SELECT_PROVIDER

\* C8: the cancel action in EnterToken submits no token; in the
\* token-management flow it returns to the token inventory, otherwise to the
\* provider list in state SelectProvider when GET /providers lists a provider,
\* and to an error text with the conversation ended when it does not.
C8_CancelReturnsByProviders ==
    turn.handler = "handle_token_cancel" =>
        /\ turn.pre = ENTER_TOKEN
        /\ CallsTo("POST", "/selections") = {}
        /\ IF turn.ud.return_to = "manage_tokens"
           THEN "inventory" \in ShownKinds /\ PostState = MAIN_MENU
           ELSE IF Listed("GET", "/providers") # <<>>
           THEN ShownKinds = {"provider_list"} /\ PostState = SELECT_PROVIDER
           ELSE ShownKinds = {"could_not_load_providers"} /\ PostState = END

\* the token prompt is cancelled and the provider list comes back
C8_CancelledToProviderList ==
    /\ turn.handler = "handle_token_cancel"
    /\ "provider_list" \in ShownKinds
    /\ PostState = SELECT_PROVIDER

\* C9: for every id-carrying prefix and every id, ids that contain the text of
\* the prefix included, the id extracted from prefix + id is the id.
C9_ExtractedIdIsTheId ==
    probe.fn = "extract" => probe.out = probe.id

\* an id that contains the text of its prefix is extracted
C9_IdContainsPrefix ==
    /\ probe.fn = "extract"
    /\ \E i \in 1..Len(probe.id) :
            i + Len(probe.prefix) - 1 <= Len(probe.id)
            /\ SubSeq(probe.id, i, i + Len(probe.prefix) - 1) = probe.prefix

\* C10 at the server deletions of MainMenu and ServerDetails: when the
\* DELETE request fails because the backend is unreachable, the deletion is
\* not reported as done and the conversation state after the turn is the
\* state before it.
C10_UnreachableDeleteIsAbandoned ==
    \A i \in CallsTo("DELETE", "/servers/{id}") :
        calls[i].resp.kind = "unreachable" =>
            /\ "server_deleted" \notin ShownKinds
            /\ PostState = turn.pre

\* a server deletion meets an unreachable backend
C10_DeleteUnreachable ==
    \E i \in CallsTo("DELETE", "/servers/{id}") : calls[i].resp.kind = "unreachable"

\* a request of the turn failed: no 2xx response with a JSON body came back
SomeCallFailed == \E i \in 1..Len(calls) : calls[i].resp.kind # "ok"
\* the messages the turn sent or edited that now carry a button whose press the
\* resulting state handles
ReachableButtons ==
    {j \in 1..Len(shown) :
        /\ shown[j].msg # NoId
        /\ \E d \in Keyboard(msgs[turn.chat][shown[j].msg]) :
              Dispatch(PostState, CallbackUpd(turn.user, turn.chat, shown[j].msg, d)) # "none"}

\* C11: after a backend call of a turn has failed, what the turn rendered
\* carries at least one button that is handled in the resulting state (the
\* claim asks for a "return to main" button; any handled button is accepted
\* here).
C11_FailureLeavesAButton ==
    (turn # NoTurn /\ SomeCallFailed /\ shown # <<>>) => ReachableButtons # {}

\* the server list cannot be fetched and the turn renders the error text
C11_ServerListFetchFails ==
    /\ RespOf("GET", "/servers").kind = "unreachable"
    /\ CallsTo("GET", "/servers") # {}
    /\ "error_fetching_servers" \in ShownKinds
    /\ PostState = MAIN_MENU

\* the conversation states a user rests in between turns
ResidentStates == {SELECT_PROVIDER, ENTER_TOKEN, MAIN_MENU, SERVER_DETAILS, ACCOUNT_CONFIRM}

\* the callback data of every button the bot renders for the backend's
\* providers and servers
AllButtons ==
    StartMenuKeyboard \cup ActionsKeyboard \cup TokenPromptKeyboard \cup ConfirmKeyboard
        \cup BackDetailsKeyboard \cup ProviderKeyboard(<<HETZNER, LINODE>>)
        \cup ReplaceKeepKeyboard(HETZNER) \cup ReplaceKeepKeyboard(LINODE)
        \cup build_server_list_keyboard(<<SERVER_1>>) \cup DetailsKeyboard(SERVER_1)
        \cup InventoryKeyboard(<<HETZNER, LINODE>>, <<HETZNER, LINODE>>)

\* the turn of the handler named h
HandlerTurn(h, k, upd, rs) ==
    CASE h = "handle_provider_selection" -> handle_provider_selection(k, upd, rs)
      [] h = "handle_existing_token_choice" -> handle_existing_token_choice(k, upd, rs)
      [] h = "handle_manage_servers_callback" -> handle_manage_servers_callback(k, upd, rs)
      [] h = "handle_token_cancel" -> handle_token_cancel(k, upd, rs)
      [] h = "handle_main_menu_callback" -> handle_main_menu_callback(k, upd, rs)
      [] h = "handle_server_details_callback" -> handle_server_details_callback(k, upd, rs)
      [] h = "handle_account_confirm_callback" -> handle_account_confirm_callback(k, upd, rs)

\* some button press on a message of the chat is handled in the state of key
\* (c, u) and, for some answers of the backend, ends in MainMenu
SomePressLeadsToMainMenu(u, c) ==
    \E m \in MsgIds : \E d \in AllButtons :
        LET upd == CallbackUpd(u, c, m, d)
            h == Dispatch(conv[c][u], upd)
        IN /\ msgs[c][m] \notin {UnusedMsg, DeletedMsg}
           /\ h # "none"
           /\ \E k \in Outcomes([rs \in Backends(u) |-> HandlerTurn(h, TurnCtx(u, c), upd, rs)], u) :
                 k.exc = "" /\ k.ret = MAIN_MENU

\* a message of the bot is in the chat
SomeMessageLeft(c) == \E m \in MsgIds : msgs[c][m] \notin {UnusedMsg, DeletedMsg}

\* C12: in every resident state (SelectProvider, EnterToken, MainMenu,
\* ServerDetails, AccountDeleteConfirm) some button callback is handled whose
\* handling leads to MainMenu (the press is on a message still in the chat).
C12_MainMenuReachableByButton ==
    (turn = NoTurn /\ conv[1][1] \in ResidentStates /\ SomeMessageLeft(1)) =>
        SomePressLeadsToMainMenu(1, 1)

\* the user rests in EnterToken, where the prompt's Cancel is the only button handled
C12_RestsInEnterToken ==
    /\ turn = NoTurn
    /\ conv[1][1] = ENTER_TOKEN
    /\ SomeMessageLeft(1)
    /\ \A d \in AllButtons : Dispatch(ENTER_TOKEN, CallbackUpd(1, 1, 1, d)) # "none" => d = CB_TOKEN_CANCEL

\* the user confirmed the deletion of the account and DELETE /user came back
\* with a JSON object (what the handler takes for success)
AccountDeleted ==
    /\ turn.handler = "handle_account_confirm_callback"
    /\ turn.data = CB_CONFIRM_DELETE_ACCOUNT
    /\ \E i \in CallsTo("DELETE", "/user") : Truthy(api_request(calls[i].resp))

AccountDeletionFailed ==
    /\ turn.handler = "handle_account_confirm_callback"
    /\ turn.data = CB_CONFIRM_DELETE_ACCOUNT
    /\ \E i \in CallsTo("DELETE", "/user") : ~Truthy(api_request(calls[i].resp))
\* the user cancelled the deletion of the account
AccountDeletionCancelled ==
    /\ turn.handler = "handle_account_confirm_callback"
    /\ turn.data = CB_CANCEL_DELETE_ACCOUNT
\* the session after the turn is the session before it, the anchor message aside
SessionKept ==
    [PostData EXCEPT !.main_menu_message_id = NoId, !.main_menu_chat_id = NoId]
        = [turn.ud EXCEPT !.main_menu_message_id = NoId, !.main_menu_chat_id = NoId]

\* C14: in AccountDeleteConfirm a failed account deletion shows the error,
\* leaves the session as it was and falls back to MainMenu; the cancel action
\* goes to MainMenu in every case and makes no DELETE /user request.
C14_FailedOrCancelledDeletionLandsInMainMenu ==
    /\ AccountDeletionFailed =>
          /\ "failed_delete_account" \in ShownKinds
          /\ SessionKept
          /\ PostState = MAIN_MENU
    /\ AccountDeletionCancelled =>
          /\ CallsTo("DELETE", "/user") = {}
          /\ SessionKept
          /\ PostState = MAIN_MENU

\* the deletion is cancelled after the user removed the anchor message from the chat
C14_CancelledWithoutAnchorMessage ==
    /\ AccountDeletionCancelled
    /\ turn.pre = ACCOUNT_CONFIRM
    /\ turn.ud.main_menu_message_id # NoId
    /\ msgs[turn.chat][turn.ud.main_menu_message_id] = DeletedMsg

\* C15: the generic cancel command clears the pending input flags (the
\* pending token action, and the wait for a token text: a text that follows
\* is not submitted as a token), returns the user to MainMenu handling and
\* keeps the backend user id of the session.
C15_CancelClearsPendingInput ==
    turn.handler = "cancel" =>
        /\ PostData.token_action = None
        /\ \A text \in Texts :
              Dispatch(PostState, TextUpd(turn.user, turn.chat, text)) # "handle_token_input"
        /\ PostState = MAIN_MENU
        /\ PostData.user_id = turn.ud.user_id

\* /cancel is sent while a token is awaited
C15_CancelledWhileTokenAwaited ==
    /\ turn.handler = "cancel"
    /\ turn.pre = ENTER_TOKEN
    /\ turn.ud.token_action = "add"

\* a button press made the controller render the main menu: show_main_menu
\* fetched the server list (start, which fetches it too, signs up first)
MenuRenderedOnPress ==
    /\ turn.type = "callback"
    /\ CallsTo("POST", "/signup") = {}
    /\ CallsTo("GET", "/servers") # {}
    /\ RespOf("GET", "/servers").kind = "ok"
\* the session the turn found names an anchor message of this chat
AnchorStoredBefore ==
    /\ turn.ud.main_menu_message_id # NoId
    /\ turn.ud.main_menu_chat_id = turn.chat
\* ... which the user has deleted
AnchorGone ==
    /\ AnchorStoredBefore
    /\ msgs[turn.chat][turn.ud.main_menu_message_id] = DeletedMsg
\* the turn sent a new message with the server list
FreshServerList ==
    \E j \in 1..Len(shown) : shown[j].via = "reply" /\ shown[j].sc.kind = "server_list"

\* C16: when the in-place edit of the main-menu message fails because the
\* content is unchanged, the failure is swallowed and the turn completes in
\* MainMenu; when it fails because the anchor message no longer exists, the
\* controller sends a fresh message with the same content.
C16_EditFailureFallsBackToFreshMessage ==
    MenuRenderedOnPress =>
        /\ turn.exc = ""
        /\ PostState = MAIN_MENU
        /\ AnchorGone => FreshServerList

\* the main menu is rendered on a press after the anchor message was deleted
C16_RenderedWithoutAnchorMessage ==
    /\ MenuRenderedOnPress
    /\ AnchorGone

\* the server list GET /servers answered with, as the list message shows it
FetchedServerList == ServerListScreen(api_request(RespOf("GET", "/servers")))

\* C17: whenever the main menu is rendered in response to a button press and
\* the session names an anchor message of the chat, the server list is written
\* onto that anchor message (which then shows the fetched list unless the edit
\* raised), the anchor stays the anchor, and no new server-list message is sent.
C17_MenuEditsAnchorInPlace ==
    (MenuRenderedOnPress /\ AnchorStoredBefore) =>
        /\ ~FreshServerList
        /\ \A j \in 1..Len(shown) :
              shown[j].sc.kind = "server_list" =>
                  shown[j].via = "edit" /\ shown[j].msg = turn.ud.main_menu_message_id
        /\ turn.exc = "" => msgs[turn.chat][turn.ud.main_menu_message_id] = FetchedServerList
        /\ PostData.main_menu_message_id = turn.ud.main_menu_message_id
        /\ PostData.main_menu_chat_id = turn.ud.main_menu_chat_id

\* a press on another message than the anchor makes the anchor show a new list
C17_AnchorEditedFromOtherMessage ==
    /\ MenuRenderedOnPress
    /\ AnchorStoredBefore
    /\ turn.msg # turn.ud.main_menu_message_id
    /\ \E j \in 1..Len(shown) :
          shown[j].via = "edit" /\ shown[j].msg = turn.ud.main_menu_message_id
              /\ shown[j].sc = FetchedServerList

\* C18: an exception that a handler does not handle itself (the edit failure
\* re-raised by the main-menu render) is caught at the turn boundary and
\* turned into a generic failure message to the user, and the controller
\* takes the next update.
C18_RaisedTurnTellsTheUser ==
    turn.exc # "" =>
        /\ \E j \in 1..Len(shown) : shown[j].sc.kind = "generic_failure"
        /\ ENABLED EndTurn

\* a turn ends with an exception raised out of its handler
C18_HandlerRaised ==
    /\ turn.exc = "BadRequest: message to edit not found"
    /\ turn.handler # "none"

(* ------------------------------------------------------------------ *)
(* How the Application takes updates (bot.py:1030, 1066)                *)
(* ------------------------------------------------------------------ *)

\* updates the update queue holds at most
MaxQueue == 3

\* Application.builder().token(token).build(): concurrent_updates is not
\* asked for, and the handlers are registered with the default block=True
concurrent_updates == FALSE

\* the timeout of the request a handler waits for first: 60 s for the server
\* creation, the gateway's default of 5 s for the signup of /start
CREATE_TIMEOUT == 60
DEFAULT_TIMEOUT == 5
FirstTimeout(data) == IF data = CB_CREATE THEN CREATE_TIMEOUT ELSE DEFAULT_TIMEOUT

\* the updates the users send: the press of Create Server, and /start
UpdateData == {CB_CREATE, CMD_START}

\* polling puts an update of user u into the update queue
Enqueue(u) ==
    \E d \in UpdateData :
        /\ Len(update_queue) < MaxQueue
        /\ update_queue' = Append(update_queue, [user |-> u, data |-> d])
        /\ UNCHANGED <<conv, user_data, msgs, turn, calls, shown, probe, steps, tasks, prompted>>

\* The update fetcher takes the update at the head of the queue and its
\* handler starts. Without concurrent updates the fetcher awaits the handler
\* of one update before it takes the next.
FetchUpdate ==
    /\ update_queue # <<>>
    /\ concurrent_updates \/ \A u \in Users : tasks[u] = NoTask
    /\ tasks[Head(update_queue).user] = NoTask
    /\ tasks' = [tasks EXCEPT ![Head(update_queue).user] =
                    [data |-> Head(update_queue).data, at |-> "handler", timeout |-> 0]]
    /\ update_queue' = Tail(update_queue)
    /\ UNCHANGED <<conv, user_data, msgs, turn, calls, shown, probe, steps, prompted>>

\* the handler of user u's update sends its request to the backend and awaits
\* the response
SendRequest(u) ==
    /\ tasks[u].at = "handler"
    /\ tasks' = [tasks EXCEPT ![u].at = "request", ![u].timeout = FirstTimeout(tasks[u].data)]
    /\ UNCHANGED <<conv, user_data, msgs, turn, calls, shown, probe, steps, update_queue, prompted>>

\* the response (or the timeout) arrives and the handler runs to its end
CompleteUpdate(u) ==
    /\ tasks[u].at = "request"
    /\ tasks' = [tasks EXCEPT ![u] = NoTask]
    /\ UNCHANGED <<conv, user_data, msgs, turn, calls, shown, probe, steps, update_queue, prompted>>

NextUpdates ==
    \/ \E u \in Users : Enqueue(u)
    \/ FetchUpdate
    \/ \E u \in Users : SendRequest(u)
    \/ \E u \in Users : CompleteUpdate(u)

SpecUpdates == Init /\ [][NextUpdates]_vars

\* the server creation of user a is in flight
CreateInFlight(a) ==
    tasks[a].at = "request" /\ tasks[a].data = CB_CREATE /\ tasks[a].timeout = CREATE_TIMEOUT

\* C19: while the server creation call of user A (60 s timeout) is in flight,
\* an update of another user B (who has no turn in process) at the head of the
\* queue is taken by the fetcher: B's turn starts without waiting for A's call.
C19_SlowCreateDoesNotDelayOthers ==
    \A a \in Users :
        (/\ CreateInFlight(a)
         /\ update_queue # <<>>
         /\ Head(update_queue).user # a
         /\ tasks[Head(update_queue).user] = NoTask) =>
            ENABLED FetchUpdate

\* user A's creation is in flight and an update of user B waits in the queue
C19_OtherUserWaits ==
    \E a \in Users :
        /\ CreateInFlight(a)
        /\ update_queue # <<>>
        /\ Head(update_queue).user # a
        /\ tasks[Head(update_queue).user] = NoTask

\* the backend user ids of Telegram user u
BackendIds(u) == {SignupId(u), CanonicalId(u)}

\* C20: a turn of user A leaves the session and the conversation states of
\* every other user B as they were, and the requests it makes carry no
\* backend user id but A's, whatever the order the users' turns come in.
C20_TurnTouchesOwnSessionOnly ==
    [][turn' # NoTurn =>
          /\ \A b \in Users \ {turn'.user} :
                /\ user_data'[b] = user_data[b]
                /\ \A c \in Chats : conv'[c][b] = conv[c][b]
          /\ \A i \in 1..Len(calls') : calls'[i].uid \in BackendIds(turn'.user) \cup {None}
          /\ user_data'[turn'.user].user_id \in BackendIds(turn'.user) \cup {None}]_vars

\* user 2 presses, in the group chat, a button of a message the bot sent to
\* user 1, who has a session of their own
C20_PressOnOtherUsersMessage ==
    /\ turn.user = 2
    /\ turn.chat = 1
    /\ turn.type = "callback"
    /\ calls # <<>>
    /\ user_data[1].user_id # None
    /\ user_data[2].user_id # None
    /\ conv[1][1] # END

\* the user id the signup of this turn gave, and the one GET /user named
SignupUid == api_request(RespOf("POST", "/signup")).uid
LookupUid == api_request(RespOf("GET", "/user")).uid
\* start ran and the user lookup named another user id than the cached one
LookupNamedOtherId ==
    /\ SignupOk
    /\ CallsTo("GET", "/user") # {}
    /\ LookupUid # None
    /\ LookupUid # SignupUid

\* C21: whenever the user lookup of start returns a user id that differs from
\* the cached one, the session's backend user id is the backend's value after
\* the turn, the requests that follow the lookup carry it, and the requests of
\* every other turn carry the id the session holds.
C21_SessionFollowsBackendUserId ==
    /\ LookupNamedOtherId =>
          /\ PostData.user_id = LookupUid
          /\ \A i \in 1..Len(calls) :
                (\E j \in CallsTo("GET", "/user") : j < i) /\ calls[i].uid # None
                    => calls[i].uid = LookupUid
    /\ (turn # NoTurn /\ CallsTo("POST", "/signup") = {}) =>
          \A i \in 1..Len(calls) : calls[i].uid \in {None, turn.ud.user_id}

\* the lookup names another id for a user without selections
C21_OtherIdWithoutSelections ==
    /\ LookupNamedOtherId
    /\ Listed("GET", "/user") = <<>>

(* ------------------------------------------------------------------ *)
(* The gateway as a function of the backend's outcome (bot.py:197-245)  *)
(* ------------------------------------------------------------------ *)

\* how far past TextLimit a raw error body may reach
MaxOver == 2

\* a raw body of n characters, the character depending on its position
BodyText(n) == [i \in 1..n |-> IF i % 3 = 0 THEN "c" ELSE IF i % 3 = 1 THEN "a" ELSE "b"]

BodyTexts == {BodyText(n) : n \in {0, 1} \cup ((TextLimit - 1)..(TextLimit + MaxOver))}

HttpStatuses == {400, 404, 500, 503}

\* exceptions of the HTTP client: failing to connect, the four timeouts, a
\* connection lost while reading, and one that is no transport error
ExcClasses ==
    {"ConnectError", "ConnectTimeout", "ReadTimeout", "WriteTimeout", "PoolTimeout",
     "ReadError", "ValueError"}

\* every outcome of one HTTP request
Responses ==
    {OkResp(b) : b \in {NoneBody, JEmptyDict, JDict(<<"A", "1">>, <<>>, FALSE),
                        JList(<<>>, <<>>), JList(<<HETZNER>>, <<>>)}}
    \cup {BadJsonResp, UnreachableResp}
    \cup {HttpErrResp(st, m, t) : st \in HttpStatuses, m \in {"", "No such server"},
                                  t \in BodyTexts}
    \cup {RaisedResp(e, s) : e \in ExcClasses, s \in {"", "boom"}}

\* a handler calls api_request and the backend answers r
ApiRequest ==
    \E r \in Responses :
        /\ probe' = [fn |-> "api_request", arg |-> r, out |-> api_request(r)]
        /\ UNCHANGED <<conv, user_data, msgs, turn, calls, shown, steps, update_queue, tasks, prompted>>

\* a handler calls api_request_with_error and the backend answers r
ApiRequestWithError ==
    \E r \in Responses :
        /\ probe' = [fn |-> "api_request_with_error", arg |-> r,
                     out |-> api_request_with_error(r)]
        /\ UNCHANGED <<conv, user_data, msgs, turn, calls, shown, steps, update_queue, tasks, prompted>>

NextGateway == ApiRequest \/ ApiRequestWithError

SpecGateway == Init /\ [][NextGateway]_vars

\* the client's exceptions for a failed connection and for a timeout
ConnectionFailures == {"ConnectError"}
Timeouts == {"ConnectTimeout", "ReadTimeout", "WriteTimeout", "PoolTimeout"}

\* C22: neither gateway variant raises: for every outcome of the request the
\* silent variant returns the payload or None, the detailed variant returns
\* (payload, None) or (None, message), and the message is COULD_NOT_REACH
\* when the connection failed or the request timed out.
C22_GatewayAnswersEveryOutcome ==
    /\ probe.fn = "api_request" =>
          probe.out = (IF probe.arg.kind = "ok" THEN probe.arg.body ELSE NoneBody)
    /\ probe.fn = "api_request_with_error" =>
          /\ \/ probe.arg.kind = "ok" /\ probe.out = <<probe.arg.body, NoMsg>>
             \/ probe.arg.kind # "ok" /\ probe.out[1] = NoneBody /\ probe.out[2] # NoMsg
          /\ (probe.arg.kind = "unreachable" \/ probe.arg.exc \in ConnectionFailures \cup Timeouts)
                => probe.out[2] = Msg(COULD_NOT_REACH)

\* the request timed out while it was being sent
C22_TimedOutWhileSending ==
    /\ probe.fn = "api_request_with_error"
    /\ probe.arg.exc = "WriteTimeout"

\* the detailed call got a non-2xx response
HttpErrorAnswered == probe.fn = "api_request_with_error" /\ probe.arg.kind = "http"

\* C23: on a non-2xx response the error message of the detailed call is the
\* JSON body's message field when it has one, else the first TextLimit
\* characters of a non-empty raw body, else "HTTP <status>"; it is never empty.
C23_ErrorMessagePrecedence ==
    HttpErrorAnswered =>
        LET r == probe.arg
            m == probe.out[2]
            n == IF Len(r.text) < TextLimit THEN Len(r.text) ELSE TextLimit
        IN /\ probe.out[1] = NoneBody
           /\ r.msg # "" => m = [s |-> r.msg, cs |-> <<>>, code |-> 0]
           /\ (r.msg = "" /\ r.text # <<>>) =>
                 m = [s |-> "", cs |-> [i \in 1..n |-> r.text[i]], code |-> 0]
           /\ (r.msg = "" /\ r.text = <<>>) =>
                 m = [s |-> "HTTP", cs |-> <<>>, code |-> r.status]
           /\ m # NoMsg
           /\ m.s # "" \/ m.cs # <<>>

\* a non-2xx response without a message field whose raw body is longer than
\* TextLimit
C23_LongRawBody ==
    /\ HttpErrorAnswered
    /\ probe.arg.msg = ""
    /\ Len(probe.arg.text) > TextLimit
    /\ Len(probe.out[2].cs) = TextLimit

\* the requests that change something at the backend
MutatingEndpoints ==
    {<<"POST", "/selections">>, <<"DELETE", "/selections">>, <<"POST", "/servers/create">>,
     <<"DELETE", "/servers/{id}">>, <<"DELETE", "/user">>}

\* C24: no request is repeated automatically: within one turn each mutating
\* endpoint is requested at most once, whatever the backend answered.
C24_MutatingEndpointOncePerTurn ==
    \A e \in MutatingEndpoints : Cardinality(CallsTo(e[1], e[2])) <= 1

\* a turn whose mutating request failed
C24_MutatingRequestFailed ==
    /\ turn # NoTurn
    /\ \E e \in MutatingEndpoints :
          /\ Cardinality(CallsTo(e[1], e[2])) = 1
          /\ RespOf(e[1], e[2]).kind # "ok"

\* the turn is a press of the create-server button in MainMenu
CreatePressed ==
    /\ turn.handler = "handle_main_menu_callback"
    /\ turn.pre = MAIN_MENU
    /\ turn.data = CB_CREATE
\* the create request got no usable payload
CreateFailed ==
    /\ CallsTo("POST", "/servers/create") # {}
    /\ ~Truthy(api_request_with_error(RespOf("POST", "/servers/create"))[1])
\* the positions in shown of the texts of one kind
ShownAt(kind) == {j \in 1..Len(shown) : shown[j].sc.kind = kind}
\* the main menu is rendered again: the server list is requested after the
\* create request and the turn writes the list, or the text that the list
\* cannot be fetched, unless the anchor shows that list already
MenuRerendered ==
    /\ turn.exc = ""
    /\ \E i \in CallsTo("POST", "/servers/create") :
          \E j \in CallsTo("GET", "/servers") : i < j
    /\ \/ ShownAt("server_list") \cup ShownAt("error_fetching_servers") # {}
       \/ /\ AnchorStoredBefore
          /\ msgs[turn.chat][turn.ud.main_menu_message_id] = FetchedServerList

\* C25: the create-server action issues one POST /servers/create with the
\* 60 s timeout, then renders the main menu again and ends in MainMenu whether
\* the request succeeded or failed; when it failed, the error text is shown
\* before the menu is rendered again.
C25_CreateThenMainMenu ==
    CreatePressed =>
        /\ Cardinality(CallsTo("POST", "/servers/create")) = 1
        /\ \A i \in CallsTo("POST", "/servers/create") : calls[i].timeout = CREATE_TIMEOUT
        /\ MenuRerendered
        /\ PostState = MAIN_MENU
        /\ CreateFailed =>
              /\ ShownAt("failed_create_server") # {}
              /\ \A i \in ShownAt("failed_create_server") :
                    \A j \in ShownAt("server_list") \cup ShownAt("error_fetching_servers") : i < j

\* create is pressed after the user deleted the anchor message
C25_CreatePressedWithoutAnchorMessage ==
    /\ CreatePressed
    /\ CreateFailed
    /\ AnchorGone

\* the endpoint each action of the details view asks, by the prefix of its
\* callback data
DetailsActions ==
    {<<CB_CHECK, "/servers/{id}/check">>, <<CB_VPN_VERIFY, "/servers/{id}/vpn-verify">>,
     <<CB_METRICS, "/servers/{id}/metrics">>}
\* the turn is a press of the action a in ServerDetails
ActionPressed(a) ==
    /\ turn.handler = "handle_server_details_callback"
    /\ turn.pre = SERVER_DETAILS
    /\ StartsWith(turn.data, a[1])
\* the turn is a press of the back action of a result screen
BackDetailsPressed ==
    /\ turn.handler = "handle_server_details_callback"
    /\ turn.pre = SERVER_DETAILS
    /\ turn.data = CB_BACK_DETAILS

\* C26: in ServerDetails the reachability check, the VPN verify and the
\* metrics action each ask their endpoint for the pressed server and leave the
\* conversation in ServerDetails whether the request succeeded or failed; the
\* result is written onto the pressed message with a back action that is
\* handled in ServerDetails, and that back action asks for the details of the
\* selected server and shows them.
C26_DetailsActionsStayInDetails ==
    /\ \A a \in DetailsActions :
          ActionPressed(a) =>
             /\ turn.exc = ""
             /\ Cardinality(CallsTo("GET", a[2])) = 1
             /\ \A i \in CallsTo("GET", a[2]) : calls[i].sid = Suffix(turn.data, a[1])
             /\ PostState = SERVER_DETAILS
             /\ shown # <<>>
             /\ shown[Len(shown)].sc.kind = "result"
             /\ shown[Len(shown)].msg = turn.msg
             /\ CB_BACK_DETAILS \in Keyboard(msgs[turn.chat][turn.msg])
             /\ Dispatch(PostState, CallbackUpd(turn.user, turn.chat, turn.msg, CB_BACK_DETAILS))
                   = "handle_server_details_callback"
    /\ BackDetailsPressed =>
          /\ calls # <<>>
          /\ calls[1].method = "GET" /\ calls[1].path = "/servers/{id}"
          /\ calls[1].sid = turn.ud.selected_server_id
          /\ Truthy(api_request(calls[1].resp)) =>
                /\ PostState = SERVER_DETAILS
                /\ msgs[turn.chat][turn.msg].kind = "details"
                /\ msgs[turn.chat][turn.msg].ids = <<turn.ud.selected_server_id>>

\* one of the three actions was pressed and its request failed
C26_DetailsActionFailed ==
    \E a \in DetailsActions :
        /\ ActionPressed(a)
        /\ CallsTo("GET", a[2]) # {}
        /\ RespOf("GET", a[2]).kind # "ok"
        /\ PostState = SERVER_DETAILS

\* the buttons on the messages of the turn's chat
ChatButtons == UNION {Keyboard(msgs[turn.chat][m]) : m \in MsgIds}
\* the turn wrote the server list onto a message, and nothing was raised
ServerListRendered ==
    /\ turn # NoTurn
    /\ turn.exc = ""
    /\ ShownAt("server_list") # {}

\* C27: whenever a turn renders the server list, on a message or on a button
\* press, the list carries one row per server and a 'return to main' button,
\* and the chat offers a 'create server' button (on the list message or on its
\* companion actions message); this holds for an empty list too.
C27_ServerListCarriesCreateAndBack ==
    ServerListRendered =>
        LET sc == shown[CHOOSE j \in ShownAt("server_list") : TRUE].sc
        IN /\ sc.ids = Listed("GET", "/servers")
           /\ \A i \in 1..Len(sc.ids) : CB_SERVER \o sc.ids[i] \in Keyboard(sc)
           /\ CB_BACK \in Keyboard(sc)
           /\ CB_CREATE \in ChatButtons

\* the list is rendered on a button press and no message of the chat carries
\* the create button
C27_ListRenderedOnPressWithoutCreate ==
    /\ ServerListRendered
    /\ turn.type = "callback"
    /\ CB_CREATE \notin ChatButtons

(* ------------------------------------------------------------------ *)
(* Status display (bot.py:67-97)                                        *)
(* ------------------------------------------------------------------ *)

STATUS_READY == {<<"a", "c", "t", "i", "v", "e">>, <<"r", "u", "n", "n", "i", "n", "g">>}
STATUS_ISSUE ==
    {<<"e", "r", "r", "o", "r">>, <<"f", "a", "i", "l", "e", "d">>, <<"d", "e", "l", "e", "t", "e", "d">>}
STATUS_SETUP ==
    {<<"c", "r", "e", "a", "t", "i", "n", "g">>, <<"p", "r", "o", "v", "i", "s", "i", "o", "n", "i", "n", "g">>, <<"b", "o", "o", "t", "i", "n", "g">>,
     <<"p", "e", "n", "d", "i", "n", "g">>, <<"s", "t", "a", "r", "t", "i", "n", "g">>}

\* the emojis of the status lines
EMOJI_READY == "white_check_mark"
EMOJI_ISSUE == "x"
EMOJI_SETUP == "hourglass"
EMOJI_UNKNOWN == "white_circle"

\* the labels of the status lines
LABEL_READY == <<"R", "e", "a", "d", "y">>
LABEL_ISSUE == <<"I", "s", "s", "u", "e">>
LABEL_SETUP == <<"S", "e", "t", "t", "i", "n", "g", " ", "u", "p">>
LABEL_UNKNOWN == <<"U", "n", "k", "n", "o", "w", "n">>
LABEL_LOADING == <<"L", "o", "a", "d", "i", "n", "g">>
LABEL_ERROR == <<"E", "r", "r", "o", "r">>

\* `x or ""` for a text that may be None
OrEmpty(x) == IF x = NoneSeq THEN <<>> ELSE x

\* a variant of _status_display that compares the status as it came
status_display_untrimmed(api_status) ==
    LET s == OrEmpty(api_status)
    IN CASE s \in STATUS_READY -> [emoji |-> EMOJI_READY, label |-> LABEL_READY]
         [] s \in STATUS_ISSUE -> [emoji |-> EMOJI_ISSUE, label |-> LABEL_ISSUE]
         [] s \in STATUS_SETUP -> [emoji |-> EMOJI_SETUP, label |-> LABEL_SETUP]
         [] OTHER -> [emoji |-> EMOJI_UNKNOWN,
                      label |-> IF OrEmpty(api_status) = <<>> THEN LABEL_UNKNOWN ELSE api_status]

\* _status_display
status_display(api_status) ==
    LET s == Lower(Strip(OrEmpty(api_status)))
    IN CASE s \in STATUS_READY -> [emoji |-> EMOJI_READY, label |-> LABEL_READY]
         [] s \in STATUS_ISSUE -> [emoji |-> EMOJI_ISSUE, label |-> LABEL_ISSUE]
         [] s \in STATUS_SETUP -> [emoji |-> EMOJI_SETUP, label |-> LABEL_SETUP]
         [] OTHER -> [emoji |-> EMOJI_UNKNOWN,
                      label |-> IF OrEmpty(api_status) = <<>> THEN LABEL_UNKNOWN ELSE api_status]

\* `p in s` for two texts
Contains(s, p) ==
    \E i \in 1..(Len(s) - Len(p) + 1) : SubSeq(s, i, i + Len(p) - 1) = p

VERIFIED == <<"v", "e", "r", "i", "f", "i", "e", "d">>
VPN_READY == {<<"i", "n", "s", "t", "a", "l", "l", "e", "d">>, <<"r", "e", "a", "d", "y">>}
VPN_LOADING ==
    {<<"i", "n", "s", "t", "a", "l", "l", "i", "n", "g">>, <<"p", "e", "n", "d", "i", "n", "g">>, <<"b", "o", "o", "t", "i", "n", "g">>,
     <<"c", "r", "e", "a", "t", "i", "n", "g">>, <<"p", "r", "o", "v", "i", "s", "i", "o", "n", "i", "n", "g">>}
VPN_ERROR == {<<"f", "a", "i", "l", "e", "d">>, <<"e", "r", "r", "o", "r">>, <<"n", "o", "t", "_", "r", "u", "n", "n", "i", "n", "g">>}

\* a variant of _vpn_ready_label that looks for an error before it looks for
\* a setup in progress
vpn_ready_label_error_first(server) ==
    LET vpn_status == Lower(Strip(OrEmpty(server.vpnInstallStatus)))
        vpn_msg == Lower(Strip(OrEmpty(server.vpnInstallMessage)))
        api_status == Lower(Strip(OrEmpty(server.status)))
    IN IF vpn_status \in VPN_READY \/ Contains(vpn_msg, VERIFIED)
       THEN [emoji |-> EMOJI_READY, label |-> LABEL_READY]
       ELSE IF vpn_status \in VPN_ERROR \/ api_status \in STATUS_ISSUE
       THEN [emoji |-> EMOJI_ISSUE, label |-> LABEL_ERROR]
       ELSE [emoji |-> EMOJI_SETUP, label |-> LABEL_LOADING]

\* _vpn_ready_label
vpn_ready_label(server) ==
    LET vpn_status == Lower(Strip(OrEmpty(server.vpnInstallStatus)))
        vpn_msg == Lower(Strip(OrEmpty(server.vpnInstallMessage)))
        api_status == Lower(Strip(OrEmpty(server.status)))
    IN IF vpn_status \in VPN_READY \/ Contains(vpn_msg, VERIFIED)
       THEN [emoji |-> EMOJI_READY, label |-> LABEL_READY]
       ELSE IF vpn_status \in VPN_LOADING \/ api_status \in STATUS_SETUP
       THEN [emoji |-> EMOJI_SETUP, label |-> LABEL_LOADING]
       ELSE IF vpn_status \in VPN_ERROR \/ api_status \in STATUS_ISSUE
       THEN [emoji |-> EMOJI_ISSUE, label |-> LABEL_ERROR]
       ELSE [emoji |-> EMOJI_SETUP, label |-> LABEL_LOADING]

\* c.upper()
UpperChar(c) ==
    IF \E i \in 1..Len(LowerLetters) : LowerLetters[i] = c
    THEN UpperLetters[CHOOSE i \in 1..Len(LowerLetters) : LowerLetters[i] = c]
    ELSE c

\* the ways a backend may write a status word: as it is, in capitals, with a
\* capital first letter, and with white space around it
Spellings(w) ==
    LET upper == [i \in 1..Len(w) |-> UpperChar(w[i])]
        capital == [i \in 1..Len(w) |-> IF i = 1 THEN UpperChar(w[i]) ELSE w[i]]
    IN UNION {{v, <<" ">> \o v, v \o <<" ", "\n">>} : v \in {w, upper, capital}}

\* status words outside the three sets
OTHER_STATUSES ==
    {<<"s", "t", "o", "p", "p", "e", "d">>, <<"u", "n", "k", "n", "o", "w", "n">>,
     <<"a", "c", "t", "i", "v">>, <<"r", "u", "n", "n", "i", "n", "g", "s">>}

\* the status values _status_display is called with: None, the empty text,
\* white space, and the spellings of the status words
StatusInputs ==
    {NoneSeq, <<>>, <<" ">>}
        \cup UNION {Spellings(w) : w \in STATUS_READY \cup STATUS_ISSUE \cup STATUS_SETUP
                                         \cup OTHER_STATUSES}

\* the values of vpnInstallStatus, vpnInstallMessage and status of a server
VpnStatusInputs ==
    {NoneSeq, <<>>, <<"i", "n", "s", "t", "a", "l", "l", "e", "d">>,
     <<"R", "e", "a", "d", "y", " ">>,
     <<"i", "n", "s", "t", "a", "l", "l", "i", "n", "g">>,
     <<"p", "e", "n", "d", "i", "n", "g">>,
     <<"f", "a", "i", "l", "e", "d">>,
     <<"n", "o", "t", "_", "r", "u", "n", "n", "i", "n", "g">>,
     <<"s", "k", "i", "p", "p", "e", "d">>}
VpnMessageInputs ==
    {NoneSeq, <<>>, <<"V", "P", "N", " ", "V", "e", "r", "i", "f", "i", "e", "d">>,
     <<"u", "n", "v", "e", "r", "i", "f", "i", "e", "d">>,
     <<"i", "n", "s", "t", "a", "l", "l", " ", "f", "a", "i", "l", "e", "d">>}
ApiStatusInputs ==
    {NoneSeq, <<"a", "c", "t", "i", "v", "e">>,
     <<"C", "r", "e", "a", "t", "i", "n", "g">>,
     <<"b", "o", "o", "t", "i", "n", "g", " ">>,
     <<"e", "r", "r", "o", "r">>,
     <<"D", "E", "L", "E", "T", "E", "D">>,
     <<"s", "t", "o", "p", "p", "e", "d">>}

\* the server detail view formats the status of a server
StatusDisplay ==
    \E x \in StatusInputs :
        /\ probe' = [fn |-> "status_display", arg |-> x, out |-> status_display(x)]
        /\ UNCHANGED <<conv, user_data, msgs, turn, calls, shown, steps, update_queue, tasks, prompted>>

\* the server list formats the readiness of a server
VpnReadyLabel ==
    \E vs \in VpnStatusInputs : \E vm \in VpnMessageInputs : \E st \in ApiStatusInputs :
        LET server == [vpnInstallStatus |-> vs, vpnInstallMessage |-> vm, status |-> st]
        IN /\ probe' = [fn |-> "vpn_ready_label", arg |-> server, out |-> vpn_ready_label(server)]
           /\ UNCHANGED <<conv, user_data, msgs, turn, calls, shown, steps, update_queue, tasks, prompted>>

NextStatus == StatusDisplay \/ VpnReadyLabel

SpecStatus == Init /\ [][NextStatus]_vars

\* _status_display was given a text (not None)
StatusOfText == probe.fn = "status_display" /\ probe.arg # NoneSeq
\* that text, trimmed and in lower case
TrimmedStatus == Lower(Strip(probe.arg))
\* the text is in one of the three sets and gets that set's bucket
KnownStatusBucketed ==
    /\ TrimmedStatus \in STATUS_READY => probe.out = [emoji |-> EMOJI_READY, label |-> LABEL_READY]
    /\ TrimmedStatus \in STATUS_ISSUE => probe.out = [emoji |-> EMOJI_ISSUE, label |-> LABEL_ISSUE]
    /\ TrimmedStatus \in STATUS_SETUP => probe.out = [emoji |-> EMOJI_SETUP, label |-> LABEL_SETUP]
OtherStatus == TrimmedStatus \notin STATUS_READY \cup STATUS_ISSUE \cup STATUS_SETUP

\* C28 as stated: a status text that, trimmed and in lower case, is in
\* {active, running} is Ready, in {error, failed, deleted} Issue, in {creating,
\* provisioning, booting, pending, starting} Setting up, and every other text
\* is in the Unknown bucket with the text itself as the label.
C28_EveryOtherStatusEchoed ==
    StatusOfText =>
        /\ KnownStatusBucketed
        /\ OtherStatus => probe.out = [emoji |-> EMOJI_UNKNOWN, label |-> probe.arg]

\* C28, amended: the same buckets; every other text that is not empty is in
\* the Unknown bucket with the text itself, untrimmed, as the label, and the
\* empty text is in the Unknown bucket with the label Unknown.
C28_StatusBuckets ==
    StatusOfText =>
        /\ KnownStatusBucketed
        /\ (OtherStatus /\ probe.arg # <<>>) =>
              probe.out = [emoji |-> EMOJI_UNKNOWN, label |-> probe.arg]
        /\ probe.arg = <<>> => probe.out = [emoji |-> EMOJI_UNKNOWN, label |-> LABEL_UNKNOWN]

\* a status in capitals with white space around it lands in its bucket
C28_PaddedCapitalsBucketed ==
    /\ StatusOfText
    /\ probe.arg # TrimmedStatus
    /\ Strip(probe.arg) # probe.arg
    /\ TrimmedStatus \in STATUS_SETUP
    /\ probe.out.label = LABEL_SETUP

\* _vpn_ready_label was called; the three fields trimmed and in lower case
ReadinessAsked == probe.fn = "vpn_ready_label"
VpnStatusOf == Lower(Strip(OrEmpty(probe.arg.vpnInstallStatus)))
VpnMessageOf == Lower(Strip(OrEmpty(probe.arg.vpnInstallMessage)))
ApiStatusOf == Lower(Strip(OrEmpty(probe.arg.status)))
\* the signals of the three fields
MessageVerified == Contains(VpnMessageOf, VERIFIED)
SetupSignal == VpnStatusOf \in VPN_LOADING \/ ApiStatusOf \in STATUS_SETUP
IssueSignal == VpnStatusOf \in VPN_ERROR \/ ApiStatusOf \in STATUS_ISSUE
InstalledSignal == VpnStatusOf \in VPN_READY
IsReady == probe.out = [emoji |-> EMOJI_READY, label |-> LABEL_READY]
IsLoading == probe.out = [emoji |-> EMOJI_SETUP, label |-> LABEL_LOADING]
IsError == probe.out = [emoji |-> EMOJI_ISSUE, label |-> LABEL_ERROR]

\* C29 as stated: a server whose vpnInstallMessage contains "verified" is
\* Ready whatever the other fields say; otherwise a setup signal gives
\* Loading, an issue signal present or not; otherwise an issue signal gives
\* Error; otherwise the server is Loading.
C29_VerifiedElseSetupElseIssue ==
    ReadinessAsked =>
        /\ MessageVerified => IsReady
        /\ (~MessageVerified /\ SetupSignal) => IsLoading
        /\ (~MessageVerified /\ ~SetupSignal /\ IssueSignal) => IsError
        /\ (~MessageVerified /\ ~SetupSignal /\ ~IssueSignal) => IsLoading

\* C29, amended: a server whose vpnInstallMessage contains "verified", or
\* whose vpnInstallStatus is installed or ready, is Ready whatever the other
\* fields say; otherwise a setup signal gives Loading, an issue signal present
\* or not; otherwise an issue signal gives Error; otherwise the server is
\* Loading.
C29_ReadinessPrecedence ==
    ReadinessAsked =>
        LET ready == MessageVerified \/ InstalledSignal
        IN /\ ready => IsReady
           /\ (~ready /\ SetupSignal) => IsLoading
           /\ (~ready /\ ~SetupSignal /\ IssueSignal) => IsError
           /\ (~ready /\ ~SetupSignal /\ ~IssueSignal) => IsLoading

\* a server with a setup signal and an issue signal and no sign of readiness
C29_SetupAndIssueTogether ==
    /\ ReadinessAsked
    /\ ~MessageVerified /\ ~InstalledSignal
    /\ SetupSignal /\ IssueSignal
    /\ IsLoading

(* ------------------------------------------------------------------ *)
(* Uptime formatting (bot.py:138-153)                                   *)
(* ------------------------------------------------------------------ *)

\* the whole days of the longest uptime
MaxDays == 2

\* seconds is None: no uptime is known
NoSeconds == 0 - 1

RECURSIVE PyStr(_)
\* str(n) of a natural number: its decimal digits
PyStr(n) ==
    LET digit == <<"0", "1", "2", "3", "4", "5", "6", "7", "8", "9">>[(n % 10) + 1]
    IN IF n < 10 THEN <<digit>> ELSE PyStr(n \div 10) \o <<digit>>

RECURSIVE Join(_)
\* " ".join(parts)
Join(parts) ==
    IF parts = <<>> THEN <<>>
    ELSE IF Len(parts) = 1 THEN parts[1]
    ELSE parts[1] \o <<" ">> \o Join(Tail(parts))

\* the parts list of _format_uptime: the number and the unit of every part
uptime_parts(seconds) ==
    LET days == seconds \div 86400
        s1 == seconds % 86400
        hours == s1 \div 3600
        s2 == s1 % 3600
        minutes == s2 \div 60
        s == s2 % 60
    IN (IF days # 0 THEN <<[n |-> days, unit |-> "d"]>> ELSE <<>>)
       \o (IF hours # 0 THEN <<[n |-> hours, unit |-> "h"]>> ELSE <<>>)
       \o (IF minutes # 0 THEN <<[n |-> minutes, unit |-> "m"]>> ELSE <<>>)
       \o <<[n |-> s, unit |-> "s"]>>

\* _format_uptime
format_uptime(seconds) ==
    IF seconds = NoSeconds THEN <<"N", "/", "A">>
    ELSE LET parts == uptime_parts(seconds)
         IN Join([i \in 1..Len(parts) |-> PyStr(parts[i].n) \o <<parts[i].unit>>])

\* the uptimes the metrics summary formats: none, and days, hours, minutes
\* and seconds in every combination of none, one and the most of each
Uptimes ==
    {NoSeconds} \cup {d * 86400 + h * 3600 + m * 60 + s :
                    d \in 0..MaxDays, h \in {0, 1, 23}, m \in {0, 1, 59}, s \in {0, 1, 5, 30, 59}}

\* the metrics summary formats an uptime
FormatUptime ==
    \E seconds \in Uptimes :
        /\ probe' = [fn |-> "format_uptime", arg |-> seconds,
                     parts |-> IF seconds = NoSeconds THEN <<>> ELSE uptime_parts(seconds),
                     out |-> format_uptime(seconds)]
        /\ UNCHANGED <<conv, user_data, msgs, turn, calls, shown, steps, update_queue, tasks, prompted>>

NextUptime == FormatUptime

SpecUptime == Init /\ [][NextUptime]_vars

\* _format_uptime was given a number of seconds
UptimeFormatted == probe.fn = "format_uptime" /\ probe.arg # NoSeconds
\* the seconds each unit stands for
UnitWeight(u) ==
    CASE u = "d" -> 86400 [] u = "h" -> 3600 [] u = "m" -> 60 [] OTHER -> 1
RECURSIVE WeightedSum(_)
WeightedSum(parts) ==
    IF parts = <<>> THEN 0
    ELSE parts[1].n * UnitWeight(parts[1].unit) + WeightedSum(Tail(parts))
\* the units of the parts, in the order they are shown
UnitsShown == [i \in 1..Len(probe.parts) |-> probe.parts[i].unit]
\* the units from the largest one that is not zero down to the seconds
UnitsFromLargest ==
    IF probe.arg >= 86400 THEN <<"d", "h", "m", "s">>
    ELSE IF probe.arg >= 3600 THEN <<"h", "m", "s">>
    ELSE IF probe.arg >= 60 THEN <<"m", "s">>
    ELSE <<"s">>

\* C30: for every number of seconds n >= 0 the parts shown add up to n, only
\* the leading units that are zero are left out (once a larger unit is shown
\* every smaller one is shown too), the seconds are always shown, 65 is
\* rendered as "1m 5s" and 0 as "0s".
C30_OnlyLeadingZerosOmitted ==
    UptimeFormatted =>
        /\ WeightedSum(probe.parts) = probe.arg
        /\ UnitsShown = UnitsFromLargest
        /\ probe.arg = 65 => probe.out = <<"1", "m", " ", "5", "s">>
        /\ probe.arg = 0 => probe.out = <<"0", "s">>

\* an uptime of whole hours: the minutes are zero and a larger unit is shown
C30_WholeHours ==
    /\ UptimeFormatted
    /\ probe.arg = 3600
    /\ probe.out = <<"1", "h", " ", "0", "s">>

(* ------------------------------------------------------------------ *)
(* The token flow, from a chat that holds two provider lists            *)
(* ------------------------------------------------------------------ *)

\* turns of the token flow
MaxTokenSteps == 4

\* the providers GET /providers lists
PROVIDER_LIST == Screen("provider_list", <<HETZNER, LINODE>>, <<>>, <<>>, NoMsg)

\* User 1 has sent /start twice as a user without servers or selections: the
\* chat holds two messages with the provider list, the session holds the
\* backend user id, and the conversation waits in SELECT_PROVIDER.
InitTokens ==
    /\ conv = [c \in Chats |-> [u \in Users |-> IF c = 1 /\ u = 1 THEN SELECT_PROVIDER ELSE END]]
    /\ user_data = [u \in Users |->
                       IF u = 1 THEN [EmptyUserData EXCEPT !.user_id = SignupId(1), !.telegram_id = 1]
                       ELSE EmptyUserData]
    /\ msgs = [c \in Chats |-> [m \in MsgIds |->
                       IF c = 1 /\ m \in {1, 2} THEN PROVIDER_LIST ELSE UnusedMsg]]
    /\ turn = NoTurn
    /\ calls = <<>>
    /\ shown = <<>>
    /\ probe = NoProbe
    /\ steps = MaxSteps - MaxTokenSteps
    /\ update_queue = <<>>
    /\ tasks = [u \in Users |-> NoTask]
    /\ prompted = [u \in Users |-> NoneSeq]

NextTokens ==
    \/ HandleProviderSelection(1, 1)
    \/ HandleExistingTokenChoice(1, 1)
    \/ HandleTokenCancel(1, 1)
    \/ HandleTokenInput(1, 1)
    \/ EndTurn

SpecTokens == InitTokens /\ [][NextTokens]_vars

\* the program state InitTokens starts from, as a state of Spec
TwoStartsSent ==
    /\ conv[1][1] = SELECT_PROVIDER
    /\ user_data[1] = [EmptyUserData EXCEPT !.user_id = SignupId(1), !.telegram_id = 1]
    /\ msgs[1] = [m \in MsgIds |-> IF m \in {1, 2} THEN PROVIDER_LIST ELSE UnusedMsg]
    /\ turn = NoTurn
    /\ prompted[1] = NoneSeq

\* C31: every POST /selections of a token submission names the provider of
\* the token prompt rendered last to that user, whichever way the prompt was
\* reached and whichever message carried the button that led to it.
C31_TokenSavedForPromptedProvider ==
    turn.handler = "handle_token_input" =>
        \A i \in CallsTo("POST", "/selections") : calls[i].provider = prompted[turn.user]

\* a token is submitted after 'remove & add new token' was pressed on an
\* older message, for another provider than the one picked last
C31_TokenAfterStaleReplace ==
    /\ turn.handler = "handle_token_input"
    /\ CallsTo("POST", "/selections") # {}
    /\ prompted[turn.user] # turn.ud.provider

(* ------------------------------------------------------------------ *)
(* One user with conversations in two chats                             *)
(* ------------------------------------------------------------------ *)

\* turns of the user in the two chats
MaxChatSteps == 3

\* User 2, known to the backend, has sent /start in chat 1 and in chat 2:
\* each chat holds the start menu and both conversations wait in MAIN_MENU.
InitChats ==
    /\ conv = [c \in Chats |-> [u \in Users |-> IF u = 2 THEN MAIN_MENU ELSE END]]
    /\ user_data = [u \in Users |->
                       IF u = 2 THEN [EmptyUserData EXCEPT !.user_id = SignupId(2), !.telegram_id = 2]
                       ELSE EmptyUserData]
    /\ msgs = [c \in Chats |-> [m \in MsgIds |->
                       IF m = 1 THEN TextScreen("start_menu") ELSE UnusedMsg]]
    /\ turn = NoTurn
    /\ calls = <<>>
    /\ shown = <<>>
    /\ probe = NoProbe
    /\ steps = MaxSteps - MaxChatSteps
    /\ update_queue = <<>>
    /\ tasks = [u \in Users |-> NoTask]
    /\ prompted = [u \in Users |-> NoneSeq]

NextChats ==
    \/ HandleMainMenuCallback(2, 1)
    \/ HandleMainMenuCallback(2, 2)
    \/ HandleServerDetailsCallback(2, 1)
    \/ HandleAccountConfirmCallback(2, 2)
    \/ EndTurn

SpecChats == InitChats /\ [][NextChats]_vars

\* the program state InitChats starts from, as a state of SpecUsers
TwoChatsStarted ==
    /\ conv[1][2] = MAIN_MENU /\ conv[2][2] = MAIN_MENU
    /\ user_data[2] = [EmptyUserData EXCEPT !.user_id = SignupId(2), !.telegram_id = 2]
    /\ \A c \in Chats : msgs[c] = [m \in MsgIds |-> IF m = 1 THEN TextScreen("start_menu") ELSE UnusedMsg]
    /\ conv[1][1] = END /\ conv[2][1] = END /\ user_data[1] = EmptyUserData
    /\ turn = NoTurn

\* the requests that carry no user id
AnonymousPaths == {"/signup", "/providers", "/stats/aggregate"}

\* C32: every conversation that rests in SelectProvider, EnterToken, MainMenu,
\* ServerDetails or AccountDeleteConfirm belongs to a user whose session holds
\* a backend user id, and no request that names a user is sent without one;
\* also for a user with conversations in two chats who deletes the account in
\* one of them.
C32_ResidentSessionHoldsUserId ==
    /\ \A c \in Chats : \A u \in Users :
          conv[c][u] \in ResidentStates => user_data[u].user_id # None
    /\ \A i \in 1..Len(calls) :
          calls[i].path \notin AnonymousPaths => calls[i].uid # None

\* the account was deleted in one chat, and a press in the other chat sends a
\* request without a user id
C32_RequestAfterDeletionElsewhere ==
    /\ turn # NoTurn
    /\ turn.ud.user_id = None
    /\ turn.pre \in ResidentStates
    /\ \E i \in 1..Len(calls) : calls[i].path \notin AnonymousPaths /\ calls[i].uid = None

\* the server list the turn rendered, and the message that carries it
RenderedList == shown[CHOOSE j \in ShownAt("server_list") : TRUE]

\* C33: whenever a turn renders the server list with its buttons, by the
\* /manage command too, the user's conversation is in MainMenu after the turn
\* and a press on each button of the list goes to the main-menu handler.
C33_ServerListButtonsReachMainMenu ==
    ServerListRendered =>
        /\ PostState = MAIN_MENU
        /\ \A d \in Keyboard(RenderedList.sc) :
              Dispatch(PostState, CallbackUpd(turn.user, turn.chat, RenderedList.msg, d))
                  = "handle_main_menu_callback"

\* /manage renders the server list while the conversation waits elsewhere
C33_ManageOutsideMainMenu ==
    /\ ServerListRendered
    /\ turn.handler = "manage_servers"
    /\ PostState # MAIN_MENU

\* the turn's requests made through api_request_with_error that change
\* something: token removal, server creation, account deletion
DetailedMutations ==
    CallsTo("DELETE", "/selections") \cup CallsTo("POST", "/servers/create") \cup CallsTo("DELETE", "/user")
\* the failure texts those requests can lead to
FailureKinds == {"failed_remove_token", "failed_create_server", "failed_delete_account"}

\* C34: when the backend answers a token removal, a server creation or an
\* account deletion with a 2xx status, whatever the body (an empty JSON object,
\* no JSON at all), the turn shows no failure text, and after a 2xx answer to
\* the account deletion the session is cleared.
C34_Success2xxNeverReportedAsFailure ==
    \A i \in DetailedMutations :
        calls[i].resp.status = 200 =>
            /\ ShownKinds \cap FailureKinds = {}
            /\ calls[i].path = "/user" => PostData = EmptyUserData

\* a 2xx answer with the body {} to a mutation is shown as a failure
C34_EmptyBodyShownAsFailure ==
    /\ \E i \in DetailedMutations : calls[i].resp = OkResp(JEmptyDict)
    /\ ShownKinds \cap FailureKinds # {}

\* the anchor message a session names: <<message id, chat id>>
AnchorOf(ud) == <<ud.main_menu_message_id, ud.main_menu_chat_id>>
NoAnchor == <<NoId, NoId>>
AnchorChanged == turn # NoTurn /\ AnchorOf(PostData) # AnchorOf(turn.ud)

\* C35: the anchor's message id and chat id are both set or both unset, and a
\* turn changes the anchor only when a command or text made the main menu send
\* the server list as a new message (the anchor is that message), when a button
\* press made the main menu write the list onto the pressed message because no
\* anchor of this chat was stored (the anchor is the pressed message), or when
\* the account was deleted (the anchor is cleared). Every other turn, one whose
\* edit of the anchor failed included, leaves the anchor as it was.
C35_AnchorChangesInThreeCasesOnly ==
    /\ \A u \in Users :
          (user_data[u].main_menu_message_id = NoId) <=> (user_data[u].main_menu_chat_id = NoId)
    /\ AnchorChanged =>
          \/ /\ turn.type # "callback"
             /\ \E j \in ShownAt("server_list") :
                   /\ shown[j].via = "reply"
                   /\ AnchorOf(PostData) = <<shown[j].msg, turn.chat>>
          \/ /\ turn.type = "callback"
             /\ ~AnchorStoredBefore
             /\ \E j \in ShownAt("server_list") : shown[j].via = "edit" /\ shown[j].msg = turn.msg
             /\ AnchorOf(PostData) = <<turn.msg, turn.chat>>
          \/ /\ AccountDeleted
             /\ AnchorOf(PostData) = NoAnchor
    /\ (MenuRenderedOnPress /\ AnchorStoredBefore) => ~AnchorChanged

\* a press on a list whose edit fails (the anchor shows that list already, or
\* the anchor is gone) after an earlier turn had set the anchor
C35_AnchorKeptWhenEditFails ==
    /\ MenuRenderedOnPress
    /\ AnchorStoredBefore
    /\ ShownAt("server_list") = {}
    /\ AnchorOf(PostData) = AnchorOf(turn.ud)

====
